---- MODULE Spec2Model ----
(***************************************************************************)
(* A model of the davit-frame scripts: the parametric frame builders, the  *)
(* tube functions that turn one member into a frame (d, perp1, perp2) and  *)
(* a 3DFACE mesh, and the scripts' entry points.                           *)
(*                                                                         *)
(* Numbers.  The scripts compute with reals (Python floats).  The model    *)
(* computes with exact real numbers of the field Q(g), g = 2*cos(pi/8) =   *)
(* sqrt(2 + sqrt 2): a number is a tuple <<a, b, c, d>> of integers and    *)
(* stands for  a + b*r2 + (c + d*r2)*g  with r2 = sqrt 2.  The field holds *)
(* L / sqrt(2) for every rational L and cos, sin of every multiple of      *)
(* pi/8, so the brace offsets and the ring points of a 4-, 8- or           *)
(* 16-segment ring are exact.  A unit vector is kept as an integer-like    *)
(* vector v together with the number n under the root, v / sqrt(n), so     *)
(* that normalising (dividing by a magnitude) is exact too.                *)
(*                                                                         *)
(* Lengths are counted in ticks: half inches in the DXF generator and the  *)
(* PNG visualiser, 1/32 inch in the GIF script, 1/10 mm in the STEP        *)
(* generator, chosen so that radius/2 and L/2 are whole.                   *)
(***************************************************************************)
EXTENDS Integers, Sequences, FiniteSets, TLC

VARIABLES
    mode,      \* which specification's run this is: "frame", "tube", "mesh", "script",
               \* "export", "gif"
    script,    \* the script or tube function that is running
    dims,      \* frame builder: the dimensions (the builder's local constants)
    pc,        \* position of the run
    calls,     \* frame builder: the tube calls made so far, in order
    tube,      \* tube function, export: its arguments; GIF loop: its loop variable
    frame,     \* tube function: the vectors (d, perp1, perp2) it computed
    trace,     \* tube function: the numeric steps it executed, in order
    msp,       \* the entities emitted so far (3DFACEs, lines, circles, surfaces, solids)
    env,       \* entry point: what the outside world does (files, libraries, exports)
    result     \* entry point: what main returned and the process's exit status

vars == <<mode, script, dims, pc, calls, tube, frame, trace, msp, env, result>>

----------------------------------------------------------------------------
(* Exact numbers  a + b*r2 + (c + d*r2)*g,  r2^2 = 2,  g^2 = 2 + r2.       *)

Num(a) == <<a, 0, 0, 0>>
Zero == Num(0)
One == Num(1)
Root2 == <<0, 1, 0, 0>>

NAdd(x, y) == <<x[1] + y[1], x[2] + y[2], x[3] + y[3], x[4] + y[4]>>
NNeg(x) == <<-x[1], -x[2], -x[3], -x[4]>>
NSub(x, y) == NAdd(x, NNeg(y))
NScale(k, x) == <<k * x[1], k * x[2], k * x[3], k * x[4]>>

\* (a1 + b1 r2)(a2 + b2 r2) on pairs
Q2Mul(p, q) == <<p[1] * q[1] + 2 * p[2] * q[2], p[1] * q[2] + p[2] * q[1]>>
Q2Add(p, q) == <<p[1] + q[1], p[2] + q[2]>>

\* (A1 + B1 g)(A2 + B2 g) = A1 A2 + B1 B2 (2 + r2) + (A1 B2 + B1 A2) g
NMul(x, y) ==
    LET A1 == <<x[1], x[2]>>
        B1 == <<x[3], x[4]>>
        A2 == <<y[1], y[2]>>
        B2 == <<y[3], y[4]>>
        re == Q2Add(Q2Mul(A1, A2), Q2Mul(Q2Mul(B1, B2), <<2, 1>>))
        im == Q2Add(Q2Mul(A1, B2), Q2Mul(B1, A2))
    IN  <<re[1], re[2], im[1], im[2]>>

SgnInt(k) == IF k > 0 THEN 1 ELSE IF k < 0 THEN -1 ELSE 0

\* the sign of a + b r2
Q2Sign(p) ==
    LET sa == SgnInt(p[1])
        sb == SgnInt(p[2])
    IN  IF sb = 0 THEN sa
        ELSE IF sa = 0 \/ sa = sb THEN sb
        ELSE sa * SgnInt(p[1] * p[1] - 2 * p[2] * p[2])

\* the sign of A + B g, from the signs of A, B and of A^2 - B^2 (2 + r2)
NSign(x) ==
    LET A == <<x[1], x[2]>>
        B == <<x[3], x[4]>>
        sa == Q2Sign(A)
        sb == Q2Sign(B)
        Bsq == Q2Mul(Q2Mul(B, B), <<2, 1>>)
        Asq == Q2Mul(A, A)
    IN  IF sb = 0 THEN sa
        ELSE IF sa = 0 \/ sa = sb THEN sb
        ELSE sa * Q2Sign(<<Asq[1] - Bsq[1], Asq[2] - Bsq[2]>>)

NLess(x, y) == NSign(NSub(y, x)) > 0
NLeq(x, y) == NSign(NSub(y, x)) >= 0

\* x / k for an integer k that divides every coefficient
NDivInt(x, k) == <<x[1] \div k, x[2] \div k, x[3] \div k, x[4] \div k>>
NDivisible(x, k) == \A i \in 1..4 : x[i] % k = 0

----------------------------------------------------------------------------
(* Vectors <<x, y, z>> of exact numbers (Vec3, numpy arrays, FreeCAD.Vector) *)

Vec(x, y, z) == <<Num(x), Num(y), Num(z)>>
VZero == Vec(0, 0, 0)
VAdd(u, w) == <<NAdd(u[1], w[1]), NAdd(u[2], w[2]), NAdd(u[3], w[3])>>
VSub(u, w) == <<NSub(u[1], w[1]), NSub(u[2], w[2]), NSub(u[3], w[3])>>
VScale(s, u) == <<NMul(s, u[1]), NMul(s, u[2]), NMul(s, u[3])>>
VDot(u, w) == NAdd(NAdd(NMul(u[1], w[1]), NMul(u[2], w[2])), NMul(u[3], w[3]))
VCross(u, w) ==
    << NSub(NMul(u[2], w[3]), NMul(u[3], w[2])),
       NSub(NMul(u[3], w[1]), NMul(u[1], w[3])),
       NSub(NMul(u[1], w[2]), NMul(u[2], w[1])) >>
VNormSq(u) == VDot(u, u)

----------------------------------------------------------------------------
(* Unit vectors  v / sqrt(n)  and normalising                              *)

RECURSIVE Gcd(_, _)
Gcd(a, b) == IF b = 0 THEN a ELSE Gcd(b, a % b)
AbsInt(k) == IF k < 0 THEN -k ELSE k
NContent(x) == Gcd(Gcd(AbsInt(x[1]), AbsInt(x[2])), Gcd(AbsInt(x[3]), AbsInt(x[4])))
VContent(u) == Gcd(Gcd(NContent(u[1]), NContent(u[2])), NContent(u[3]))
VDivInt(u, k) == <<NDivInt(u[1], k), NDivInt(u[2], k), NDivInt(u[3], k)>>

\* A scaled direction: the real vector v / sqrt(n), n > 0.
Dir(v, n) == [v |-> v, n |-> n]

\* Vec3.normalize, v / np.linalg.norm(v): u / |u| for u # 0.  The positive
\* whole factor common to u's coefficients cancels and is divided out first.
\* The zero vector has no direction (ZeroDivisionError in ezdxf, nan in
\* numpy): what comes out of it is marked by n = 0.
normalize(u) ==
    IF u = VZero THEN Dir(VZero, Zero)
    ELSE LET w == VDivInt(u, VContent(u))
         IN  Dir(w, VNormSq(w))

\* direction.cross(perp1), np.cross(direction, perp1), not normalised
cross(p, q) == Dir(VCross(p.v, q.v), NMul(p.n, q.n))

IsUnit(p) == VNormSq(p.v) = p.n
Orthogonal(p, q) == VDot(p.v, q.v) = Zero
\* two scaled directions that are the same real vector
SameDir(p, q) ==
    /\ VCross(p.v, q.v) = VZero
    /\ NSign(VDot(p.v, q.v)) > 0
    /\ NMul(VNormSq(p.v), q.n) = NMul(VNormSq(q.v), p.n)

\* Vec3(1, 0, 0), np.array([1, 0, 0])
UnitX == Dir(Vec(1, 0, 0), One)

\* the 0.99 of "abs(direction.z) < 0.99", as THRESHOLD_NUM / THRESHOLD_DEN
THRESHOLD_NUM == 99
THRESHOLD_DEN == 100

\* a test that sends every direction to the first branch
NotVertical_always(d) == TRUE
\* abs(direction.z) < 0.99 for the unit vector d:  z^2 / n < (99/100)^2
NotVertical(d) ==
    NLess(NScale(THRESHOLD_DEN * THRESHOLD_DEN, NMul(d.v[3], d.v[3])),
          NScale(THRESHOLD_NUM * THRESHOLD_NUM, d.n))

----------------------------------------------------------------------------
(* cos and sin of the ring angles                                          *)

G == <<0, 0, 1, 0>>

\* 2 cos(k pi / 8) for k in 0..15: 2, g, r2, g r2 - g, 0 in the first quarter
\* turn (2cos(3x) = 2cos(x) 2cos(2x) - 2cos(x)), the rest by symmetry.
Cos2Quarter(k) ==
    CASE k = 0 -> Num(2)
      [] k = 1 -> G
      [] k = 2 -> Root2
      [] k = 3 -> NSub(NMul(G, Root2), G)
      [] k = 4 -> Zero
Cos2(k) ==
    IF k <= 4 THEN Cos2Quarter(k)
    ELSE IF k <= 8 THEN NNeg(Cos2Quarter(8 - k))
    ELSE IF k <= 12 THEN NNeg(Cos2Quarter(k - 8))
    ELSE Cos2Quarter(16 - k)

\* 2 sin(k pi / 8) = 2 cos((k - 4) pi / 8)
Sin2(k) == Cos2((k + 12) % 16)

\* The angle 2 pi i / n is a multiple of pi/8 exactly when n divides 16.
ExactAngle(n) == n > 0 /\ 16 % n = 0
Eighths(i, n) == (i * (16 \div n)) % 16

----------------------------------------------------------------------------
(* Points of a tube's mesh.  A ring point is kept as the expression the    *)
(* code evaluates, center + radius*(cos(a)*perp1 + sin(a)*perp2) with      *)
(* a = 2 pi i / n; RingOffset evaluates it against the tube's frame.        *)

RingPoint(center, radius, i, n) == [c |-> center, r |-> radius, i |-> i, n |-> n]
\* the tube's own end point, the common vertex of a cap
CapCenter(center) == [c |-> center, r |-> 0, i |-> 0, n |-> 1]

\* radius * cos(angle) and radius * sin(angle), angle = 2 pi i / n, n | 16
RCos(pt) == NDivInt(NScale(pt.r, Cos2(Eighths(pt.i, pt.n))), 2)
RSin(pt) == NDivInt(NScale(pt.r, Sin2(Eighths(pt.i, pt.n))), 2)

\* offset = radius * (cos(angle) * perp1 + sin(angle) * perp2), as the two
\* scaled directions whose sum it is
RingOffset(pt, perp1, perp2) ==
    [t1 |-> Dir(VScale(RCos(pt), perp1.v), perp1.n),
     t2 |-> Dir(VScale(RSin(pt), perp2.v), perp2.n)]

\* x1/sqrt(n1) + x2/sqrt(n2) = 0
RadSumIsZero(x1, n1, x2, n2) ==
    \/ x1 = Zero /\ x2 = Zero
    \/ /\ x1 # Zero
       /\ x2 # Zero
       /\ NSign(x1) = -NSign(x2)
       /\ NMul(NMul(x1, x1), n2) = NMul(NMul(x2, x2), n1)

\* |t1 + t2|^2 = rsq, for t1 = v1/sqrt(n1), t2 = v2/sqrt(n2):
\* |v1|^2/n1 + |v2|^2/n2 + 2 v1.v2/sqrt(n1 n2) = rsq
OffsetLengthSqIs(off, rsq) ==
    LET n1 == off.t1.n
        n2 == off.t2.n
        C2 == NScale(2, VDot(off.t1.v, off.t2.v))
        R == NSub(NSub(NMul(rsq, NMul(n1, n2)), NMul(VNormSq(off.t1.v), n2)),
                  NMul(VNormSq(off.t2.v), n1))
    IN  \/ C2 = Zero /\ R = Zero
        \/ /\ C2 # Zero
           /\ NSign(C2) = NSign(R)
           /\ NMul(NMul(C2, C2), NMul(n1, n2)) = NMul(R, R)

\* (t1 + t2) . d = 0
OffsetOrthogonalTo(off, d) ==
    RadSumIsZero(VDot(off.t1.v, d.v), off.t1.n, VDot(off.t2.v, d.v), off.t2.n)

----------------------------------------------------------------------------
(* metal_frame_generator.py: create_tube_solid and create_closed_tube_mesh *)

NoFrame == [computed |-> FALSE]

Face(layer, p1, p2, p3, p4) ==
    [kind |-> "3DFACE", layer |-> layer, verts |-> <<p1, p2, p3, p4>>]

\* the two rings: for i in range(segments): start_points.append(...)
RingOf(center, radius, segments) ==
    [j \in 1..segments |-> RingPoint(center, radius, j - 1, segments)]

\* start_points[next_i], next_i = (i + 1) % segments, for the 1-based j = i + 1
NextOf(ring, j) == ring[(j % Len(ring)) + 1]

\* side face i: [start_points[i], start_points[next_i], end_points[next_i], end_points[i]]
SideFace(layer, sp, ep, j) == Face(layer, sp[j], NextOf(sp, j), NextOf(ep, j), ep[j])
\* start cap i: [start_point, start_points[i], start_points[next_i], start_points[next_i]]
StartCapFace(layer, start, sp, j) ==
    Face(layer, CapCenter(start), sp[j], NextOf(sp, j), NextOf(sp, j))
\* end cap i: [end_point, end_points[next_i], end_points[i], end_points[i]]
EndCapFace(layer, end, ep, j) ==
    Face(layer, CapCenter(end), NextOf(ep, j), ep[j], ep[j])

\* a mesh builder that leaves the end cap out
create_closed_tube_mesh_open(start, end, radius, layer, segments) ==
    LET sp == RingOf(start, radius, segments)
        ep == RingOf(end, radius, segments)
    IN  [j \in 1..segments |-> SideFace(layer, sp, ep, j)]
        \o [j \in 1..segments |-> StartCapFace(layer, start, sp, j)]
\* create_closed_tube_mesh: the 3DFACEs it adds, in the order it adds them
create_closed_tube_mesh(start, end, radius, layer, segments) ==
    LET sp == RingOf(start, radius, segments)
        ep == RingOf(end, radius, segments)
    IN  [j \in 1..segments |-> SideFace(layer, sp, ep, j)]
        \o [j \in 1..segments |-> StartCapFace(layer, start, sp, j)]
        \o [j \in 1..segments |-> EndCapFace(layer, end, ep, j)]

\* perp1 of the DXF, PNG and GIF tube functions
Perp1Of(d) ==
    IF NotVertical(d)
    THEN normalize(<<NNeg(d.v[2]), d.v[1], Zero>>)
    ELSE UnitX

\* a perp2 left as the cross product comes out
Perp2Normalized_skipped(d, perp1) == cross(d, perp1)
\* perp2 = direction.cross(perp1).normalize()   (DXF, PNG)
Perp2Normalized(d, perp1) == normalize(VCross(d.v, perp1.v))
\* perp2 = np.cross(direction, perp1)           (GIF)
Perp2Raw(d, perp1) == cross(d, perp1)

\* a length test that never returns early
ZeroLength_never(direction) == FALSE
\* "if length == 0: return", length the magnitude of direction
ZeroLength(direction) == VNormSq(direction) = Zero

\* What a tube function leaves behind when it returns at the length test.
Dropped(direction) ==
    [frame |-> NoFrame, trace |-> <<[op |-> "length == 0", arg |-> direction]>>, added |-> <<>>]
\* What it leaves behind when it divides by a zero magnitude while normalising
\* direction (ZeroDivisionError in ezdxf and FreeCAD, nan in numpy).
DividedByZero(direction) ==
    [frame |-> NoFrame,
     trace |-> <<[op |-> "length == 0", arg |-> direction],
                 [op |-> "normalize direction", arg |-> direction]>>,
     added |-> <<>>]

\* One numeric step of a tube function: the length test, a normalisation
\* (a division by the magnitude of arg), a cross product, the mesh builder.
Step(op, arg) == [op |-> op, arg |-> arg]

FrameOf(d, perp1, perp2, sp, ep) ==
    [computed |-> TRUE, d |-> d, perp1 |-> perp1, perp2 |-> perp2,
     start_points |-> sp, end_points |-> ep]

\* the steps up to perp2, shared by the DXF and PNG functions (perp2 normalised)
FrameSteps(direction, d, perp1) ==
    <<Step("length == 0", direction), Step("normalize direction", direction)>>
    \o (IF NotVertical(d)
        THEN <<Step("normalize perp1", <<NNeg(d.v[2]), d.v[1], Zero>>)>>
        ELSE <<>>)
    \o <<Step("normalize perp2", VCross(d.v, perp1.v))>>

\* create_tube_solid(msp, start_point, end_point, radius, layer): what the
\* call computes and adds.  segments is create_closed_tube_mesh's parameter.
DxfTubeSolid(start, end, radius, layer, segments) ==
    LET direction == VSub(end, start)
    IN  IF ZeroLength(direction) THEN Dropped(direction)
        ELSE IF direction = VZero THEN DividedByZero(direction)
        ELSE LET d == normalize(direction)
                 perp1 == Perp1Of(d)
                 perp2 == Perp2Normalized(d, perp1)
             IN  [frame |-> FrameOf(d, perp1, perp2, RingOf(start, radius, segments),
                                    RingOf(end, radius, segments)),
                  trace |-> FrameSteps(direction, d, perp1)
                            \o <<Step("create_closed_tube_mesh", direction)>>,
                  added |-> create_closed_tube_mesh(start, end, radius, layer, segments)]

\* range(0, segments, 2), as 1-based ring indices
EvenIndices(segments) == {j \in 1..segments : (j - 1) % 2 = 0}
RECURSIVE SeqOfSet(_)
SeqOfSet(S) ==
    IF S = {} THEN <<>>
    ELSE LET m == CHOOSE x \in S : \A y \in S : x <= y
         IN  <<m>> \o SeqOfSet(S \ {m})

\* create_tube_wireframe(msp, start_point, end_point, radius, layer, segments)
DxfTubeWireframe(start, end, radius, layer, segments) ==
    LET direction == VSub(end, start)
    IN  IF ZeroLength(direction) THEN Dropped(direction)
        ELSE IF direction = VZero THEN DividedByZero(direction)
        ELSE LET d == normalize(direction)
                 perp1 == Perp1Of(d)
                 perp2 == Perp2Normalized(d, perp1)
                 sp == RingOf(start, radius, segments)
                 ep == RingOf(end, radius, segments)
                 idx == SeqOfSet(EvenIndices(segments))
             IN  [frame |-> FrameOf(d, perp1, perp2, sp, ep),
                  trace |-> FrameSteps(direction, d, perp1),
                  added |-> <<[kind |-> "CIRCLE", layer |-> layer, center |-> start, radius |-> radius],
                              [kind |-> "CIRCLE", layer |-> layer, center |-> end, radius |-> radius]>>
                            \o [k \in 1..Len(idx) |->
                                  [kind |-> "LINE", layer |-> layer,
                                   verts |-> <<sp[idx[k]], ep[idx[k]]>>]]]

\* np.linspace(0, 2*np.pi, count): count angles 2 pi j / (count - 1), j = 0..count-1,
\* the last one the full turn
LinspaceRing(center, radius, count) ==
    [j \in 1..count |-> RingPoint(center, radius, j - 1, count - 1)]

\* draw_cylinder(ax, start_point, end_point, radius, color, label, segments)
VizDrawCylinder(start, end, radius, color, segments) ==
    LET direction == VSub(end, start)
    IN  IF ZeroLength(direction) THEN Dropped(direction)
        ELSE IF direction = VZero THEN DividedByZero(direction)
        ELSE LET d == normalize(direction)
                 perp1 == Perp1Of(d)
                 perp2 == Perp2Normalized(d, perp1)
                 sp == LinspaceRing(start, radius, segments)
                 ep == LinspaceRing(end, radius, segments)
             IN  [frame |-> FrameOf(d, perp1, perp2, sp, ep),
                  trace |-> FrameSteps(direction, d, perp1),
                  added |-> <<[kind |-> "SURFACE", color |-> color, rows |-> <<sp, ep>>],
                              [kind |-> "PLOT", color |-> color, verts |-> sp],
                              [kind |-> "PLOT", color |-> color, verts |-> ep]>>]

\* theta = np.linspace(0, 2*np.pi, 16) and z_line = np.linspace(0, length, 20)
GIF_THETA_POINTS == 16
GIF_Z_POINTS == 20

\* create_tube_3d(ax, start_point, end_point, radius, color, label)
GifTube3d(start, end, radius, color) ==
    LET direction == VSub(end, start)
    IN  IF ZeroLength(direction) THEN Dropped(direction)
        ELSE IF direction = VZero THEN DividedByZero(direction)
        ELSE LET d == normalize(direction)
                 perp1 == Perp1Of(d)
                 perp2 == Perp2Raw(d, perp1)
                 sp == LinspaceRing(start, radius, GIF_THETA_POINTS)
                 ep == LinspaceRing(end, radius, GIF_THETA_POINTS)
             IN  [frame |-> FrameOf(d, perp1, perp2, sp, ep),
                  trace |-> <<Step("length == 0", direction), Step("normalize direction", direction)>>
                            \o (IF NotVertical(d)
                                THEN <<Step("normalize perp1", <<NNeg(d.v[2]), d.v[1], Zero>>)>>
                                ELSE <<>>)
                            \o <<Step("cross", VCross(d.v, perp1.v))>>,
                  added |-> <<[kind |-> "SURFACE", color |-> color, rows |-> <<sp, ep>>,
                               z_points |-> GIF_Z_POINTS]>>]


----------------------------------------------------------------------------
(* metal_frame_step_generator.py: create_tube_solid                        *)

ZUnit == Dir(Vec(0, 0, 1), One)

\* Vector.isEqual(other, 1e-6): the two vectors are at most the tolerance
\* apart.  The model's coordinates are whole ticks and whole multiples of
\* sqrt 2 of them, far coarser than the tolerance: equal means the same point.
isEqual(u, w) == VSub(u, w) = VZero

\* create_tube_solid(start_point, end_point, outer_diameter); mm is the
\* number of ticks in FreeCAD's unit length, the length of z_axis.
\* Part.makeCylinder(radius, length) with radius <= 0: the geometry kernel
\* rejects the cylinder and the call is left by Part.OCCError, nothing built.
MakeCylinderRaises(direction) ==
    [frame |-> NoFrame,
     trace |-> <<Step("length == 0", direction), Step("raise", direction)>>,
     added |-> <<>>]

StepTubeSolid(start, end, outer_diameter, mm) ==
    LET direction == VSub(end, start)
        z_axis == Vec(0, 0, mm)
        radius == outer_diameter \div 2
    IN  IF ZeroLength(direction) THEN Dropped(direction)
        ELSE IF radius <= 0 THEN MakeCylinderRaises(direction)
        ELSE IF direction = VZero THEN DividedByZero(direction)
        ELSE LET d == normalize(direction)
                 rotation ==
                     IF ~isEqual(direction, z_axis) /\ ~isEqual(direction, VSub(VZero, z_axis))
                     THEN [kind |-> "axis", axis |-> cross(ZUnit, d),
                           cos |-> [num |-> VDot(ZUnit.v, d.v), n |-> d.n]]
                     ELSE IF isEqual(direction, VSub(VZero, z_axis))
                     THEN [kind |-> "x180", axis |-> Dir(Vec(1, 0, 0), One),
                           cos |-> [num |-> Num(-1), n |-> One]]
                     ELSE [kind |-> "none", axis |-> Dir(VZero, One),
                           cos |-> [num |-> One, n |-> One]]
             IN  [frame |-> [computed |-> TRUE, d |-> d],
                  trace |-> <<Step("length == 0", direction)>>
                            \o (IF rotation.kind = "axis"
                                THEN <<Step("normalize direction", direction),
                                       Step("normalize direction", d.v),
                                       Step("rotate", rotation.axis.v)>>
                                ELSE IF rotation.kind = "x180"
                                THEN <<Step("rotate", rotation.axis.v)>>
                                ELSE <<>>),
                  added |-> <<[kind |-> "SOLID", radius |-> radius,
                               lengthSq |-> VNormSq(direction),
                               rotation |-> rotation, translate |-> start]>>]

----------------------------------------------------------------------------
(* One call of a tube function on arguments drawn from a small grid         *)

MaxXY == 1
MaxZ == 8
MaxRadius == 1
MaxSegments == 16
\* segments=16, the default of create_closed_tube_mesh, create_tube_wireframe
\* and draw_cylinder
SEGMENTS == 16

TubeStarts == {Vec(1, 0, -1)}
TubeEnds == {Vec(x, y, z) : x \in -MaxXY..MaxXY, y \in -MaxXY..MaxXY, z \in -MaxZ..MaxZ}
\* radii in ticks, even so that radius * cos is whole
TubeRadii == {2 * k : k \in 1..MaxRadius}
SegmentCounts == 3..MaxSegments

\* Every direction of the grid with the default segment count, and every
\* segment count for a vertical, a horizontal and a skew direction.
SampleEnds == {Vec(1, 0, 1), Vec(0, 0, -1), Vec(0, 1, 0)}
TubeArgs ==
    [start : TubeStarts, end : TubeEnds, radius : TubeRadii,
     layer : {"VERTICAL_TUBES"}, segments : {SEGMENTS}]
    \cup [start : TubeStarts, end : SampleEnds, radius : TubeRadii,
          layer : {"VERTICAL_TUBES"}, segments : SegmentCounts]

\* an entity that is in the modelspace or on the axes before the call
Prior == [kind |-> "LINE", layer |-> "CENTERLINES", verts |-> <<>>]

NoDims == [script |-> "none"]
NoEnv == [none |-> TRUE]
NoResult == [none |-> TRUE]
NoTube == [none |-> TRUE]

TubeInit ==
    /\ mode = "tube"
    /\ script = "none"
    /\ pc = "call"
    /\ dims = NoDims
    /\ calls = <<>>
    /\ tube \in TubeArgs
    /\ frame = NoFrame
    /\ trace = <<>>
    /\ msp = <<Prior>>
    /\ env = NoEnv
    /\ result = NoResult

\* the call returns: what it computed and what it added
TubeReturn(name, out) ==
    /\ mode = "tube"
    /\ pc = "call"
    /\ pc' = "done"
    /\ script' = name
    /\ frame' = out.frame
    /\ trace' = out.trace
    /\ msp' = msp \o out.added
    /\ UNCHANGED <<mode, dims, calls, tube, env, result>>

CallDxfTubeSolid ==
    TubeReturn("dxf.create_tube_solid",
               DxfTubeSolid(tube.start, tube.end, tube.radius, tube.layer, tube.segments))

CallDxfTubeWireframe ==
    TubeReturn("dxf.create_tube_wireframe",
               DxfTubeWireframe(tube.start, tube.end, tube.radius, tube.layer, tube.segments))

\* cylinder.rotate(base, axis, angle) with the zero vector as axis has no defined
\* result: the geometry kernel either raises on the direction of zero norm or
\* goes on with an undefined placement.
ZeroAxisRotation(out) ==
    \E k \in 1..Len(out.trace) : out.trace[k].op = "rotate" /\ out.trace[k].arg = VZero
\* the call left by an exception: what it computed so far, nothing added
Raised(out, where) ==
    [frame |-> out.frame, trace |-> out.trace \o <<Step("raise", where)>>, added |-> <<>>]
StepOutcomes(out) == IF ZeroAxisRotation(out) THEN {out, Raised(out, VZero)} ELSE {out}

CallStepTubeSolid ==
    \E out \in StepOutcomes(StepTubeSolid(tube.start, tube.end, 2 * tube.radius, 1)) :
        TubeReturn("step.create_tube_solid", out)

CallVizDrawCylinder ==
    TubeReturn("viz.draw_cylinder",
               VizDrawCylinder(tube.start, tube.end, tube.radius, "red", tube.segments))

CallGifTube3d ==
    TubeReturn("gif.create_tube_3d", GifTube3d(tube.start, tube.end, tube.radius, "red"))

\* the same calls with a radius (half the diameter) that is zero or negative
NonPositiveRadii == {-2 * k : k \in 0..MaxRadius}
RadiusArgs ==
    [start : TubeStarts, end : TubeEnds, radius : NonPositiveRadii,
     layer : {"VERTICAL_TUBES"}, segments : {SEGMENTS}]

RadiusInit ==
    /\ mode = "tube"
    /\ script = "none"
    /\ pc = "call"
    /\ dims = NoDims
    /\ calls = <<>>
    /\ tube \in RadiusArgs
    /\ frame = NoFrame
    /\ trace = <<>>
    /\ msp = <<Prior>>
    /\ env = NoEnv
    /\ result = NoResult

TubeNext ==
    \/ CallDxfTubeSolid
    \/ CallDxfTubeWireframe
    \/ CallStepTubeSolid
    \/ CallVizDrawCylinder
    \/ CallGifTube3d

SpecTube == TubeInit /\ [][TubeNext]_vars

\* create_basic_cylinder(msp, start_point, end_point, radius, layer, direction,
\* perp1, perp2) with its default segments: every side as two triangles, the
\* two caps as in create_closed_tube_mesh
BasicSideFaces(layer, sp, ep, j) ==
    <<Face(layer, sp[j], NextOf(sp, j), NextOf(ep, j), NextOf(ep, j)),
      Face(layer, sp[j], NextOf(ep, j), ep[j], ep[j])>>
create_basic_cylinder(start, end, radius, layer, segments) ==
    LET sp == RingOf(start, radius, segments)
        ep == RingOf(end, radius, segments)
    IN  [m \in 1..(2 * segments) |-> BasicSideFaces(layer, sp, ep, (m + 1) \div 2)[2 - (m % 2)]]
        \o [j \in 1..segments |-> StartCapFace(layer, start, sp, j)]
        \o [j \in 1..segments |-> EndCapFace(layer, end, ep, j)]

\* create_closed_tube_mesh under "try: ... except Exception": add_3dface raises
\* after `added` faces have gone into the modelspace (it never raises when added
\* is the whole mesh), and the handler calls create_basic_cylinder
create_closed_tube_mesh_try(start, end, radius, layer, segments, added) ==
    IF added >= 3 * segments
    THEN create_closed_tube_mesh(start, end, radius, layer, segments)
    ELSE SubSeq(create_closed_tube_mesh(start, end, radius, layer, segments), 1, added)
         \o create_basic_cylinder(start, end, radius, layer, SEGMENTS)

\* the tubes of a direction of each kind and one of no length, with every number
\* of faces that add_3dface can accept before it raises
MeshEnds == SampleEnds \cup TubeStarts
MeshArgs ==
    [start : TubeStarts, end : MeshEnds, radius : TubeRadii,
     layer : {"VERTICAL_TUBES"}, segments : {SEGMENTS}]
MeshEnvs == [faces_added : 0..(3 * SEGMENTS)]

MeshInit ==
    /\ mode = "mesh"
    /\ script = "none"
    /\ pc = "call"
    /\ dims = NoDims
    /\ calls = <<>>
    /\ tube \in MeshArgs
    /\ frame = NoFrame
    /\ trace = <<>>
    /\ msp = <<Prior>>
    /\ env \in MeshEnvs
    /\ result = NoResult

\* create_tube_solid with an add_3dface that may raise
CallDxfTubeSolidMesh ==
    /\ mode = "mesh"
    /\ pc = "call"
    /\ LET out == DxfTubeSolid(tube.start, tube.end, tube.radius, tube.layer, tube.segments)
       IN  /\ frame' = out.frame
           /\ trace' = out.trace
           /\ msp' = msp \o (IF out.frame.computed
                              THEN create_closed_tube_mesh_try(tube.start, tube.end, tube.radius,
                                                               tube.layer, tube.segments,
                                                               env.faces_added)
                              ELSE out.added)
    /\ pc' = "done"
    /\ script' = "dxf.create_tube_solid"
    /\ UNCHANGED <<mode, dims, calls, tube, env, result>>

SpecMesh == MeshInit /\ [][CallDxfTubeSolidMesh]_vars
SpecRadius == RadiusInit /\ [][TubeNext]_vars

----------------------------------------------------------------------------
(* The frame builders: create_metal_frame_dxf, create_metal_frame_step,    *)
(* create_frame_visualization and create_frame_visualization_for_gif.      *)
(* A builder's dimensions are its local constants; the model reads them as *)
(* parameters, in units of one inch (DXF, PNG), 1/16 inch (GIF) and 0.2 mm *)
(* (STEP).  A coordinate is a number of ticks, half a unit, so that        *)
(* L / sqrt(2) units is the whole multiple L * sqrt(2) of a tick and a     *)
(* radius, half a diameter, is as many ticks as the diameter has units.    *)

Ticks(units) == Num(2 * units)

\* INCH_TO_MM = 25.4: one inch is 127 units of 0.2 mm
INCH_TO_MM == 127

\* the dimensions written into create_metal_frame_dxf
DXF_DIMS ==
    [VERTICAL_HEIGHT |-> 48, HORIZONTAL_LENGTH |-> 24, MAIN_TUBE_DIAMETER |-> 2,
     BRACE_TUBE_DIAMETER |-> 2, BOTTOM_HORIZONTAL_HEIGHT |-> 12, BRACE_LENGTH |-> 12]
\* the dimensions written into create_frame_visualization
VIZ_DIMS ==
    [VERTICAL_HEIGHT |-> 48, HORIZONTAL_LENGTH |-> 24, MAIN_TUBE_DIAMETER |-> 2,
     BRACE_TUBE_DIAMETER |-> 2, BOTTOM_HORIZONTAL_HEIGHT |-> 12, BRACE_LENGTH |-> 12]
\* the inch figures written into create_metal_frame_step, each "* INCH_TO_MM"
STEP_INCHES ==
    [VERTICAL_HEIGHT |-> 48, HORIZONTAL_LENGTH |-> 24, MAIN_TUBE_DIAMETER |-> 2,
     BRACE_TUBE_DIAMETER |-> 2, BOTTOM_HORIZONTAL_HEIGHT |-> 12, BRACE_LENGTH |-> 12]
\* the dimensions written into create_frame_visualization_for_gif, in 1/16 inch:
\* 30.5, 24.125, 1.375, 1.125, 5.0 and 12.0 inches
GIF_DIMS ==
    [VERTICAL_HEIGHT |-> 488, HORIZONTAL_LENGTH |-> 386, MAIN_TUBE_DIAMETER |-> 22,
     BRACE_TUBE_DIAMETER |-> 18, BOTTOM_HORIZONTAL_HEIGHT |-> 80, BRACE_LENGTH |-> 192]

\* a conversion at 25 mm to the inch
InMm_round(inches) == [f \in DOMAIN inches |-> inches[f] * 125]
\* "X = x * INCH_TO_MM" for every dimension
InMm(inches) == [f \in DOMAIN inches |-> inches[f] * INCH_TO_MM]

MaxHeight == 1
MaxSpan == 1
MaxBottom == 1
MaxBrace == 2

\* other dimensions a builder could be given: every small height, span, rail
\* height and brace length, zero included, with a tube diameter of 2
OtherDims ==
    [VERTICAL_HEIGHT : 0..MaxHeight, HORIZONTAL_LENGTH : 0..MaxSpan,
     MAIN_TUBE_DIAMETER : {2}, BRACE_TUBE_DIAMETER : {2},
     BOTTOM_HORIZONTAL_HEIGHT : 0..MaxBottom, BRACE_LENGTH : 0..MaxBrace]

FrameScripts == {"dxf", "step", "viz", "gif"}

BuiltIn(s) ==
    CASE s = "dxf" -> DXF_DIMS
      [] s = "step" -> InMm(STEP_INCHES)
      [] s = "viz" -> VIZ_DIMS
      [] s = "gif" -> GIF_DIMS

DimsOf(s) ==
    {BuiltIn(s)} \cup (IF s = "step" THEN {InMm(o) : o \in OtherDims} ELSE OtherDims)

\* a brace offset of BRACE_LENGTH / 2, the triangle's legs taken for half its side
brace_offset_halved(BRACE_LENGTH) == Num(BRACE_LENGTH)
\* brace_offset = BRACE_LENGTH / math.sqrt(2), in ticks
brace_offset(BRACE_LENGTH) == NScale(BRACE_LENGTH, Root2)

\* a top rail put at the bottom rail's height
TOP_HORIZONTAL_HEIGHT_low(dm) == Ticks(dm.BOTTOM_HORIZONTAL_HEIGHT)
\* TOP_HORIZONTAL_HEIGHT = VERTICAL_HEIGHT
TOP_HORIZONTAL_HEIGHT(dm) == Ticks(dm.VERTICAL_HEIGHT)

Segment(start, end) == [start |-> start, end |-> end]

\* the eight members' end points, as all four builders write them: spacing is
\* VERTICAL_SPACING (HORIZONTAL_LENGTH), top and bottom the two rail heights
left_vertical(height) == Segment(<<Zero, Zero, Zero>>, <<Zero, Zero, height>>)
right_vertical(spacing, height) == Segment(<<spacing, Zero, Zero>>, <<spacing, Zero, height>>)
bottom_horizontal(spacing, bottom) == Segment(<<Zero, Zero, bottom>>, <<spacing, Zero, bottom>>)
top_horizontal(spacing, top) == Segment(<<Zero, Zero, top>>, <<spacing, Zero, top>>)
left_top_brace(top, offset) ==
    Segment(<<Zero, Zero, NSub(top, offset)>>, <<offset, Zero, top>>)
\* a right top brace that leans the way the left one does
right_top_brace_unmirrored(spacing, top, offset) ==
    Segment(<<spacing, Zero, NSub(top, offset)>>, <<NAdd(spacing, offset), Zero, top>>)
right_top_brace(spacing, top, offset) ==
    Segment(<<spacing, Zero, NSub(top, offset)>>, <<NSub(spacing, offset), Zero, top>>)
\* a left bottom brace hung below the bottom rail
left_bottom_brace_below(bottom, offset) ==
    Segment(<<Zero, Zero, NSub(bottom, offset)>>, <<offset, Zero, bottom>>)
left_bottom_brace(bottom, offset) ==
    Segment(<<Zero, Zero, NAdd(bottom, offset)>>, <<offset, Zero, bottom>>)
right_bottom_brace(spacing, bottom, offset) ==
    Segment(<<spacing, Zero, NAdd(bottom, offset)>>, <<NSub(spacing, offset), Zero, bottom>>)

MemberNames ==
    <<"left_vertical", "right_vertical", "bottom_horizontal", "top_horizontal",
      "left_top_brace", "right_top_brace", "left_bottom_brace", "right_bottom_brace">>

\* The eight segments in the order the builders make their tube calls.
Segments(dm) ==
    LET height == Ticks(dm.VERTICAL_HEIGHT)
        spacing == Ticks(dm.HORIZONTAL_LENGTH)
        bottom == Ticks(dm.BOTTOM_HORIZONTAL_HEIGHT)
        top == TOP_HORIZONTAL_HEIGHT(dm)
        offset == brace_offset(dm.BRACE_LENGTH)
    IN  <<left_vertical(height), right_vertical(spacing, height),
          bottom_horizontal(spacing, bottom), top_horizontal(spacing, top),
          left_top_brace(top, offset), right_top_brace(spacing, top, offset),
          left_bottom_brace(bottom, offset), right_bottom_brace(spacing, bottom, offset)>>

\* "TUBE_RADIUS = TUBE_DIAMETER / 2.0": half the diameter's units, in ticks
Radius(diameter) == (2 * diameter) \div 2

\* the length of FreeCAD.Vector(0, 0, 1), one millimetre, in ticks of 0.1 mm
Z_AXIS_LENGTH == 10

\* One tube call's arguments: size is the radius (the outer diameter in the
\* STEP generator), tag the layer (DXF) or the colour (PNG, GIF).
TubeCallArgs(name, seg, size, tag) ==
    [member |-> name, start |-> seg.start, end |-> seg.end, size |-> size, tag |-> tag]

\* layers that put the rails on the layer of the verticals
DxfLayers_rails_as_verticals ==
    <<"VERTICAL_TUBES", "VERTICAL_TUBES", "VERTICAL_TUBES", "VERTICAL_TUBES",
      "CORNER_BRACES", "CORNER_BRACES", "CORNER_BRACES", "CORNER_BRACES">>
\* layer= of the eight create_tube_solid calls of create_metal_frame_dxf
DxfLayers ==
    <<"VERTICAL_TUBES", "VERTICAL_TUBES", "HORIZONTAL_TUBES", "HORIZONTAL_TUBES",
      "CORNER_BRACES", "CORNER_BRACES", "CORNER_BRACES", "CORNER_BRACES">>
\* the colours of the eight draw_cylinder and create_tube_3d calls
Colors == <<"red", "red", "gold", "gold", "green", "green", "green", "green">>

\* the eight tube calls of a builder, in order
TubeCalls(s, dm) ==
    LET seg == Segments(dm)
        size(k) ==
            CASE s = "dxf" -> Radius(dm.MAIN_TUBE_DIAMETER)
              [] s = "step" -> 2 * dm.MAIN_TUBE_DIAMETER
              [] s = "viz" -> Radius(dm.MAIN_TUBE_DIAMETER)
              [] s = "gif" -> IF k <= 4 THEN Radius(dm.MAIN_TUBE_DIAMETER)
                                        ELSE Radius(dm.BRACE_TUBE_DIAMETER)
        tag(k) == IF s = "dxf" THEN DxfLayers[k] ELSE IF s = "step" THEN "" ELSE Colors[k]
    IN  [k \in 1..8 |-> TubeCallArgs(MemberNames[k], seg[k], size(k), tag(k))]

\* what the builder's tube function computes and adds for one call
TubeCall(s, a) ==
    CASE s = "dxf" -> DxfTubeSolid(a.start, a.end, a.size, a.tag, SEGMENTS)
      [] s = "step" -> StepTubeSolid(a.start, a.end, a.size, Z_AXIS_LENGTH)
      [] s = "viz" -> VizDrawCylinder(a.start, a.end, a.size, a.tag, SEGMENTS)
      [] s = "gif" -> GifTube3d(a.start, a.end, a.size, a.tag)

Line(layer, p1, p2) == [kind |-> "LINE", layer |-> layer, verts |-> <<p1, p2>>]
Text(layer, k) == [kind |-> "TEXT", layer |-> layer, line |-> k]
InchPoint(x, y, z) == <<Ticks(x), Ticks(y), Ticks(z)>>

\* add_centerlines: the horizontal ones run from x = 0 to the literal x = 24
add_centerlines(left_center, right_center, vertical_height, bottom_height, top_height) ==
    <<Line("CENTERLINES", left_center, VAdd(left_center, <<Zero, Zero, vertical_height>>)),
      Line("CENTERLINES", right_center, VAdd(right_center, <<Zero, Zero, vertical_height>>)),
      Line("CENTERLINES", <<Zero, Zero, bottom_height>>, <<Ticks(24), Zero, bottom_height>>),
      Line("CENTERLINES", <<Zero, Zero, top_height>>, <<Ticks(24), Zero, top_height>>)>>

Dimension(base, p1, p2) ==
    [kind |-> "DIMENSION", layer |-> "DIMENSIONS", base |-> base, verts |-> <<p1, p2>>]

\* add_dimensions: three linear dimensions and the brace length text
add_dimensions(vertical_height, horizontal_length, bottom_height) ==
    <<Dimension(InchPoint(-3, 0, 0), InchPoint(-2, 0, 0), <<Ticks(-2), Zero, vertical_height>>),
      Dimension(InchPoint(0, -3, 0), InchPoint(0, -2, 0), <<horizontal_length, Ticks(-2), Zero>>),
      Dimension(InchPoint(26, 0, 0), InchPoint(25, 0, 0), <<Ticks(25), Zero, bottom_height>>),
      Text("DIMENSIONS", 0)>>

\* add_annotations: the title and the ten lines of specs
add_annotations == [k \in 1..11 |-> Text("DIMENSIONS", k)]

\* the PNG's draw_centerlines and add_dimension_annotations
VizDecorations ==
    [k \in 1..4 |-> [kind |-> "PLOT", color |-> "k--", label |-> IF k = 1 THEN "Centerlines" ELSE ""]]
    \o [k \in 1..4 |-> [kind |-> "TEXT", color |-> "", label |-> ""]]

\* the GIF's cleat, three semicircle rings and two support bar systems (a bar,
\* a plate outline and four bolt holes each); only what they are is kept
GifDecorations ==
    <<[kind |-> "PLOT", color |-> "cyan", label |-> "Boat Cleat"],
      [kind |-> "PLOT", color |-> "purple", label |-> "Semicircle Rings"],
      [kind |-> "PLOT", color |-> "purple", label |-> ""],
      [kind |-> "PLOT", color |-> "purple", label |-> "Center Ring"]>>
    \o [k \in 1..12 |->
          IF k % 6 = 1 THEN [kind |-> "PLOT", color |-> "orange",
                             label |-> IF k = 1 THEN "Support Bars" ELSE ""]
          ELSE IF k % 6 = 2 THEN [kind |-> "PLOT", color |-> "yellow", label |-> ""]
          ELSE [kind |-> "SCATTER", color |-> "black", label |-> ""]]

FrameInit ==
    /\ mode = "frame"
    /\ script \in FrameScripts
    /\ dims \in DimsOf(script)
    /\ pc = MemberNames[1]
    /\ calls = <<>>
    /\ tube = NoTube
    /\ frame = NoFrame
    /\ trace = <<>>
    /\ msp = <<>>
    /\ env = NoEnv
    /\ result = NoResult

Returned(what) == [returned |-> what]

\* the ways one tube call of a builder can end
CallOutcomes(s, out) == IF s = "step" THEN StepOutcomes(out) ELSE {out}
Failed(out) == out.trace # <<>> /\ out.trace[Len(out.trace)].op = "raise"

\* The builder makes its k-th tube call: the tube function runs to its return,
\* or to an exception, which no builder catches.
BuildMember(k) ==
    /\ mode = "frame"
    /\ pc = MemberNames[k]
    /\ LET a == TubeCalls(script, dims)[k]
       IN  \E out \in CallOutcomes(script, TubeCall(script, a)) :
             /\ calls' = Append(calls, a)
             /\ msp' = msp \o out.added
             /\ frame' = out.frame
             /\ trace' = out.trace
             /\ pc' = IF Failed(out) THEN "raised"
                      ELSE IF k < 8 THEN MemberNames[k + 1] ELSE "finish"
             /\ result' = IF Failed(out) THEN Returned("exception") ELSE result
    /\ UNCHANGED <<mode, script, dims, tube, env>>

BuildLeftVertical == BuildMember(1)
BuildRightVertical == BuildMember(2)
BuildBottomHorizontal == BuildMember(3)
BuildTopHorizontal == BuildMember(4)
BuildLeftTopBrace == BuildMember(5)
BuildRightTopBrace == BuildMember(6)
BuildLeftBottomBrace == BuildMember(7)
BuildRightBottomBrace == BuildMember(8)

\* create_metal_frame_dxf after its tubes: centerlines, dimensions, annotations
FinishDxf ==
    /\ mode = "frame" /\ script = "dxf" /\ pc = "finish"
    /\ msp' = msp
              \o add_centerlines(<<Zero, Zero, Zero>>, <<Ticks(dims.HORIZONTAL_LENGTH), Zero, Zero>>,
                                 Ticks(dims.VERTICAL_HEIGHT), Ticks(dims.BOTTOM_HORIZONTAL_HEIGHT),
                                 TOP_HORIZONTAL_HEIGHT(dims))
              \o add_dimensions(Ticks(dims.VERTICAL_HEIGHT), Ticks(dims.HORIZONTAL_LENGTH),
                                Ticks(dims.BOTTOM_HORIZONTAL_HEIGHT))
              \o add_annotations
    /\ result' = Returned("doc")
    /\ pc' = "done"
    /\ UNCHANGED <<mode, script, dims, calls, tube, frame, trace, env>>

\* create_metal_frame_step after its tubes: the compound of the tubes list in
\* one document object, or (None, None) when the list is empty
FinishStep ==
    /\ mode = "frame" /\ script = "step" /\ pc = "finish"
    /\ IF msp # <<>>
       THEN /\ msp' = <<[kind |-> "Part::Feature", name |-> "MetalFrame",
                         label |-> "Stainless Steel Metal Frame", shape |-> msp]>>
            /\ result' = Returned("doc, frame_obj")
       ELSE /\ msp' = msp
            /\ result' = Returned("None, None")
    /\ pc' = "done"
    /\ UNCHANGED <<mode, script, dims, calls, tube, frame, trace, env>>

\* create_frame_visualization after its cylinders
FinishViz ==
    /\ mode = "frame" /\ script = "viz" /\ pc = "finish"
    /\ msp' = msp \o VizDecorations
    /\ result' = Returned("fig, ax")
    /\ pc' = "done"
    /\ UNCHANGED <<mode, script, dims, calls, tube, frame, trace, env>>

\* create_frame_visualization_for_gif after its tubes
FinishGif ==
    /\ mode = "frame" /\ script = "gif" /\ pc = "finish"
    /\ msp' = msp \o GifDecorations
    /\ result' = Returned("fig")
    /\ pc' = "done"
    /\ UNCHANGED <<mode, script, dims, calls, tube, frame, trace, env>>

Next ==
    \/ BuildLeftVertical
    \/ BuildRightVertical
    \/ BuildBottomHorizontal
    \/ BuildTopHorizontal
    \/ BuildLeftTopBrace
    \/ BuildRightTopBrace
    \/ BuildLeftBottomBrace
    \/ BuildRightBottomBrace
    \/ FinishDxf
    \/ FinishStep
    \/ FinishViz
    \/ FinishGif

Spec == FrameInit /\ [][Next]_vars

----------------------------------------------------------------------------
(* The scripts' entry points: what main does and the status the process    *)
(* exits with.  env is what the outside world does to one run: which files *)
(* and libraries are there and which library calls raise.                  *)

EntryScripts == {"convert", "stepgen", "dxfgen", "viz"}

DXF_FILE == "stainless_steel_frame_3d.dxf"
STEP_FILE == "stainless_steel_frame.step"
IGES_FILE == "stainless_steel_frame.iges"
PNG_FILE == "stainless_steel_frame_visualization.png"
PNG_FILE_TRANSPARENT == "stainless_steel_frame_visualization_transparent.png"

\* a world in which everything is there and nothing raises
Benign ==
    [dxf_exists |-> TRUE,         \* os.path.exists(dxf_file)
     freecad |-> TRUE,            \* "import FreeCAD" succeeds
     dxf_import |-> "shapes",     \* Import.insert: "raises", "no objects", "no shapes", "shapes"
     export_ok |-> TRUE,          \* exportStep returns (it raises otherwise)
     getsize_ok |-> TRUE,         \* os.path.getsize(filename) returns
     iges_ok |-> TRUE,            \* exportIges returns
     generator_exists |-> TRUE,   \* os.path.exists("metal_frame_step_generator.py")
     generator_runs |-> TRUE,     \* subprocess.run returns (it raises otherwise)
     generator_status |-> "0",    \* the generator's return code
     which_ok |-> TRUE,           \* subprocess.run(["which", tool]) returns (it raises otherwise)
     tools |-> {},                \* the external tools that "which" finds
     build_ok |-> TRUE,           \* the frame builder returns (it raises otherwise)
     save_ok |-> TRUE]            \* doc.saveas / plt.savefig returns

EnvsOf(s) ==
    CASE s = "convert" ->
           {[Benign EXCEPT !.dxf_exists = x, !.freecad = f, !.dxf_import = i, !.export_ok = e,
                           !.generator_exists = g, !.generator_runs = r,
                           !.generator_status = st, !.which_ok = w, !.tools = t] :
              x \in BOOLEAN, f \in BOOLEAN, i \in {"raises", "no objects", "no shapes", "shapes"},
              e \in BOOLEAN, g \in BOOLEAN, r \in BOOLEAN, st \in {"0", "1"},
              w \in BOOLEAN, t \in SUBSET {"meshconv", "assimp", "cadquery"}}
      [] s = "stepgen" ->
           {[Benign EXCEPT !.freecad = f, !.build_ok = b, !.export_ok = e, !.getsize_ok = z,
                           !.iges_ok = i] :
              f \in BOOLEAN, b \in BOOLEAN, e \in BOOLEAN, z \in BOOLEAN, i \in BOOLEAN}
      [] s = "dxfgen" ->
           {[Benign EXCEPT !.build_ok = b, !.save_ok = v] : b \in BOOLEAN, v \in BOOLEAN}
      [] s = "viz" ->
           {[Benign EXCEPT !.build_ok = b, !.save_ok = v] : b \in BOOLEAN, v \in BOOLEAN}

\* nothing returned yet, the process still running, no document open, no file written
Running == [returned |-> "unset", status |-> "running", docs |-> {}, files |-> {}]

ScriptInit ==
    /\ mode = "script"
    /\ script \in EntryScripts
    /\ env \in EnvsOf(script)
    /\ pc = "start"
    /\ dims = NoDims
    /\ calls = <<>>
    /\ tube = NoTube
    /\ frame = NoFrame
    /\ trace = <<>>
    /\ msp = <<>>
    /\ result = Running

At(s, where) == mode = "script" /\ script = s /\ pc = where
ScriptStep(to, res, called) ==
    /\ pc' = to
    /\ result' = res
    /\ calls' = calls \o called
    /\ UNCHANGED <<mode, script, dims, tube, frame, trace, msp, env>>

\* convert_with_freecad(dxf_file, step_file): what it returns, the documents it
\* leaves open and the files it writes
convert_with_freecad(e) ==
    IF e.dxf_import = "raises"
    THEN [ok |-> FALSE, docs |-> {"Conversion"}, files |-> {}]
    ELSE IF e.dxf_import = "no objects"
    THEN [ok |-> FALSE, docs |-> {"Conversion"}, files |-> {}]
    ELSE IF e.dxf_import = "no shapes"
    THEN [ok |-> FALSE, docs |-> {}, files |-> {}]
    ELSE IF ~e.export_ok
    THEN [ok |-> FALSE, docs |-> {"Conversion"}, files |-> {}]
    ELSE [ok |-> TRUE, docs |-> {}, files |-> {STEP_FILE}]

\* the return code of "sys.executable metal_frame_step_generator.py": the same
\* interpreter as the converter's, so the generator's import guard exits with 1
\* exactly when FreeCAD cannot be imported here
returncode(e) == IF ~e.freecad THEN "1" ELSE e.generator_status

\* create_step_using_native_generator(): the generator run as a subprocess
create_step_using_native_generator(e) ==
    IF ~e.generator_exists THEN [ok |-> FALSE, files |-> {}]
    ELSE IF ~e.generator_runs THEN [ok |-> FALSE, files |-> {}]
    ELSE IF returncode(e) = "0" THEN [ok |-> TRUE, files |-> {STEP_FILE}]
    ELSE [ok |-> FALSE, files |-> {}]

\* tools_to_try
tools_to_try == <<"meshconv", "assimp", "cadquery">>
\* the place in tools_to_try of the first tool that "which" finds, 0 for none
FirstFound(e) ==
    IF \E k \in 1..Len(tools_to_try) : tools_to_try[k] \in e.tools
    THEN CHOOSE k \in 1..Len(tools_to_try) :
            /\ tools_to_try[k] \in e.tools
            /\ \A m \in 1..(k - 1) : tools_to_try[m] \notin e.tools
    ELSE 0
\* the tools probed by "for tool in tools_to_try": the loop is left at the
\* first one found, and at the first probe when "which" cannot be run
ProbedTools(e) ==
    IF ~e.which_ok THEN <<tools_to_try[1]>>
    ELSE IF FirstFound(e) = 0 THEN tools_to_try
    ELSE SubSeq(tools_to_try, 1, FirstFound(e))

\* external tools whose conversion is implemented
convert_with_external_tools_implemented(e) == IF FirstFound(e) # 0 THEN TRUE ELSE FALSE
\* convert_with_external_tools(): "return False  # Not implemented yet" for the
\* first tool that is found, "return False" when none is
convert_with_external_tools(e) == IF FirstFound(e) # 0 THEN FALSE ELSE FALSE

\* a main that goes to the first method without looking for the DXF file
ConvertStart_unchecked ==
    /\ At("convert", "start")
    /\ ScriptStep("method 1", result, <<>>)
\* convert_dxf_to_step.main up to the first method: the DXF file must exist
ConvertStart ==
    /\ At("convert", "start")
    /\ IF ~env.dxf_exists
       THEN ScriptStep("return", [result EXCEPT !.returned = "False"], <<>>)
       ELSE ScriptStep("method 1", result, <<>>)

\* a Method 1 that goes on to Method 2 whatever the FreeCAD conversion returned
ConvertMethod1_falls_through ==
    /\ At("convert", "method 1")
    /\ IF env.freecad
       THEN LET out == convert_with_freecad(env)
            IN  ScriptStep("method 2", [result EXCEPT !.docs = out.docs, !.files = out.files],
                           <<"check_freecad_availability", "convert_with_freecad">>)
       ELSE ScriptStep("method 2", result, <<"check_freecad_availability">>)
\* Method 1: FreeCAD, if it can be imported
ConvertMethod1 ==
    /\ At("convert", "method 1")
    /\ IF env.freecad
       THEN LET out == convert_with_freecad(env)
                res == [result EXCEPT !.docs = out.docs, !.files = out.files]
            IN  IF out.ok
                THEN ScriptStep("return", [res EXCEPT !.returned = "True"], <<"check_freecad_availability", "convert_with_freecad">>)
                ELSE ScriptStep("method 2", res, <<"check_freecad_availability", "convert_with_freecad">>)
       ELSE ScriptStep("method 2", result, <<"check_freecad_availability">>)

\* Method 2: the native STEP generator
ConvertMethod2 ==
    /\ At("convert", "method 2")
    /\ LET out == create_step_using_native_generator(env)
           res == [result EXCEPT !.files = @ \cup out.files]
       IN  IF out.ok
           THEN ScriptStep("return", [res EXCEPT !.returned = "True"],
                           <<"create_step_using_native_generator">>)
           ELSE ScriptStep("method 3", res, <<"create_step_using_native_generator">>)

\* Method 3: external tools; nothing catches what subprocess.run raises when
\* there is no "which" to run
ConvertMethod3 ==
    /\ At("convert", "method 3")
    /\ LET made == <<"convert_with_external_tools">> \o ProbedTools(env)
       IN  IF ~env.which_ok
           THEN ScriptStep("raised", result, made)
           ELSE IF convert_with_external_tools(env)
           THEN ScriptStep("return", [result EXCEPT !.returned = "True"], made)
           ELSE ScriptStep("method 4", result, made)

\* Method 4: the manual instructions are printed and main returns False
ConvertMethod4 ==
    /\ At("convert", "method 4")
    /\ ScriptStep("return", [result EXCEPT !.returned = "False"], <<"manual instructions">>)

\* "success = main(); sys.exit(0 if success else 1)"
ExitOnSuccess(s) ==
    /\ At(s, "return")
    /\ ScriptStep("exited",
                  [result EXCEPT !.status = IF result.returned = "True" THEN "0" ELSE "1"], <<>>)

ConvertExit == ExitOnSuccess("convert")
\* an exception leaves main: the interpreter exits with 1
ConvertRaised ==
    /\ At("convert", "raised")
    /\ ScriptStep("exited", [result EXCEPT !.status = "1"], <<>>)

\* metal_frame_step_generator's import guard: sys.exit(1) without FreeCAD
StepgenImport ==
    /\ At("stepgen", "start")
    /\ IF ~env.freecad
       THEN ScriptStep("exited", [result EXCEPT !.status = "1"], <<>>)
       ELSE ScriptStep("main", result, <<>>)

\* an export that does not look at doc and frame_obj first
export_to_step_unguarded(doc, frame_obj, filename, e) ==
    IF ~e.export_ok THEN [ok |-> FALSE, calls |-> <<"exportStep">>, files |-> {}]
    ELSE IF ~e.getsize_ok
    THEN [ok |-> FALSE, calls |-> <<"exportStep", "getsize">>, files |-> {filename}]
    ELSE [ok |-> TRUE, calls |-> <<"exportStep", "getsize">>, files |-> {filename}]
\* export_to_step(doc, frame_obj, filename): what it returns, the library calls
\* it makes and the files it writes; every exception is caught
export_to_step(doc, frame_obj, filename, e) ==
    IF doc = "None" \/ frame_obj = "None"
    THEN [ok |-> FALSE, calls |-> <<>>, files |-> {}]
    ELSE IF ~e.export_ok
    THEN [ok |-> FALSE, calls |-> <<"exportStep">>, files |-> {}]
    ELSE IF ~e.getsize_ok
    THEN [ok |-> FALSE, calls |-> <<"exportStep", "getsize">>, files |-> {filename}]
    ELSE [ok |-> TRUE, calls |-> <<"exportStep", "getsize">>, files |-> {filename}]

\* a main that gives up when the IGES export fails
StepgenMain_iges_fatal ==
    /\ At("stepgen", "main")
    /\ IF ~env.build_ok
       THEN ScriptStep("return", [result EXCEPT !.returned = "False", !.docs = {"MetalFrame"}],
                       <<"create_metal_frame_step">>)
       ELSE LET out == export_to_step("MetalFrame", "MetalFrame", STEP_FILE, env)
                made == <<"create_metal_frame_step", "export_to_step">> \o out.calls
            IN  IF ~out.ok
                THEN ScriptStep("return", [result EXCEPT !.returned = "False", !.files = out.files],
                                made)
                ELSE IF ~env.iges_ok
                THEN ScriptStep("return", [result EXCEPT !.returned = "False", !.files = out.files],
                                made \o <<"exportIges">>)
                ELSE ScriptStep("return",
                                [result EXCEPT !.returned = "True",
                                               !.files = out.files \cup {IGES_FILE}],
                                made \o <<"exportIges", "create_technical_drawing_info">>)
\* metal_frame_step_generator.main: build, export to STEP, then IGES; an
\* exception makes it return False; finally closes the document main holds
StepgenMain ==
    /\ At("stepgen", "main")
    /\ IF ~env.build_ok
       THEN ScriptStep("return", [result EXCEPT !.returned = "False", !.docs = {"MetalFrame"}],
                       <<"create_metal_frame_step">>)
       ELSE LET out == export_to_step("MetalFrame", "MetalFrame", STEP_FILE, env)
                made == <<"create_metal_frame_step", "export_to_step">> \o out.calls
            IN  IF ~out.ok
                THEN ScriptStep("return", [result EXCEPT !.returned = "False", !.files = out.files],
                                made)
                ELSE ScriptStep("return",
                                [result EXCEPT !.returned = "True",
                                               !.files = out.files
                                                         \cup (IF env.iges_ok THEN {IGES_FILE} ELSE {})],
                                made \o <<"exportIges", "create_technical_drawing_info">>)

StepgenExit == ExitOnSuccess("stepgen")

\* metal_frame_generator.main: build and doc.saveas, nothing caught
DxfgenMain ==
    /\ At("dxfgen", "start")
    /\ IF ~env.build_ok
       THEN ScriptStep("raised", result, <<"create_metal_frame_dxf">>)
       ELSE IF ~env.save_ok
       THEN ScriptStep("raised", result, <<"create_metal_frame_dxf", "saveas">>)
       ELSE ScriptStep("return", [result EXCEPT !.returned = "None", !.files = {DXF_FILE}],
                       <<"create_metal_frame_dxf", "saveas">>)

\* "main()" as the script's last statement: the interpreter exits with 0 when
\* main returns and with 1 when an exception leaves it
DxfgenExit ==
    /\ mode = "script" /\ script = "dxfgen" /\ pc \in {"return", "raised"}
    /\ ScriptStep("exited", [result EXCEPT !.status = IF pc = "raised" THEN "1" ELSE "0"], <<>>)

\* visualize_frame.main: save_visualization inside try, False on any exception
VizMain ==
    /\ At("viz", "start")
    /\ IF ~env.build_ok
       THEN ScriptStep("return", [result EXCEPT !.returned = "False"],
                       <<"create_frame_visualization">>)
       ELSE IF ~env.save_ok
       THEN ScriptStep("return", [result EXCEPT !.returned = "False"],
                       <<"create_frame_visualization", "savefig">>)
       ELSE ScriptStep("return",
                       [result EXCEPT !.returned = "True", !.files = {PNG_FILE, PNG_FILE_TRANSPARENT}],
                       <<"create_frame_visualization", "savefig", "savefig", "show">>)

\* "main()" as the script's last statement: what main returned is dropped
VizExit ==
    /\ At("viz", "return")
    /\ ScriptStep("exited", [result EXCEPT !.status = "0"], <<>>)

ScriptNext ==
    \/ ConvertStart
    \/ ConvertMethod1
    \/ ConvertMethod2
    \/ ConvertMethod3
    \/ ConvertMethod4
    \/ ConvertExit
    \/ ConvertRaised
    \/ StepgenImport
    \/ StepgenMain
    \/ StepgenExit
    \/ DxfgenMain
    \/ DxfgenExit
    \/ VizMain
    \/ VizExit

SpecScripts == ScriptInit /\ [][ScriptNext]_vars

----------------------------------------------------------------------------
(* One call of export_to_step on arguments of its own                      *)

\* doc and frame_obj: None, or a document and its Part::Feature object
ExportArgs ==
    [doc : {"None", "MetalFrame", "Conversion"}, frame_obj : {"None", "MetalFrame"},
     filename : {STEP_FILE, "frame.stp"}, existing : {{}, {STEP_FILE}}]
ExportEnvs == {[Benign EXCEPT !.export_ok = e, !.getsize_ok = z] : e \in BOOLEAN, z \in BOOLEAN}

ExportInit ==
    /\ mode = "export"
    /\ script = "none"
    /\ pc = "call"
    /\ dims = NoDims
    /\ calls = <<>>
    /\ tube \in ExportArgs
    /\ frame = NoFrame
    /\ trace = <<>>
    /\ msp = <<>>
    /\ env \in ExportEnvs
    /\ result = [Running EXCEPT !.files = tube.existing]

CallExportToStep ==
    /\ mode = "export"
    /\ pc = "call"
    /\ LET out == export_to_step(tube.doc, tube.frame_obj, tube.filename, env)
       IN  /\ calls' = calls \o out.calls
           /\ result' = [result EXCEPT !.returned = IF out.ok THEN "True" ELSE "False",
                                       !.files = @ \cup out.files]
    /\ pc' = "done"
    /\ script' = "export_to_step"
    /\ UNCHANGED <<mode, dims, tube, frame, trace, msp, env>>

SpecExport == ExportInit /\ [][CallExportToStep]_vars

----------------------------------------------------------------------------
(* create_rotating_gif.py: create_rotating_gif                              *)

\* num_frames = 24
NUM_FRAMES == 24
GIF_FILE == "frame_3d_rotation.gif"

\* an angle that counts the frames from one
azim_angle_from_one(i, num_frames) == (i + 1) * (360 \div num_frames)
\* azim_angle = i * (360 / num_frames)
azim_angle(i, num_frames) == i * (360 \div num_frames)

\* what the plotting and imaging libraries do: how many frames render before
\* savefig raises (all of them when renders = num_frames), and whether the
\* final Image.save returns
GifEnvs == [renders : 0..NUM_FRAMES, save_ok : BOOLEAN]

GifInit ==
    /\ mode = "gif"
    /\ script = "create_rotating_gif"
    /\ pc = "loop"
    /\ dims = [num_frames |-> NUM_FRAMES]
    /\ calls = <<>>
    /\ tube = [i |-> 0]
    /\ frame = NoFrame
    /\ trace = <<>>
    /\ msp = <<>>
    /\ env \in GifEnvs
    /\ result = [returned |-> "unset", files |-> {}, gif |-> <<>>]

\* one pass of "for i in range(num_frames)": the figure at azim_angle is
\* rendered to a buffer and its copy appended to frames
RenderFrame ==
    /\ mode = "gif" /\ pc = "loop"
    /\ tube.i < dims.num_frames
    /\ LET azim == azim_angle(tube.i, dims.num_frames)
       IN  /\ calls' = Append(calls, [fn |-> "create_frame_visualization_for_gif", azim |-> azim])
           /\ IF tube.i < env.renders
              THEN /\ msp' = Append(msp, [kind |-> "IMAGE", azim |-> azim])
                   /\ tube' = [i |-> tube.i + 1]
                   /\ pc' = IF tube.i + 1 < dims.num_frames THEN "loop" ELSE "save"
                   /\ result' = result
              ELSE /\ pc' = "raised"
                   /\ result' = [result EXCEPT !.returned = "exception"]
                   /\ UNCHANGED <<msp, tube>>
    /\ UNCHANGED <<mode, script, dims, frame, trace, env>>

\* frames[0].save(gif_filename, save_all=True, append_images=frames[1:], ...)
SaveGif ==
    /\ mode = "gif" /\ pc = "save"
    /\ IF env.save_ok
       THEN /\ result' = [returned |-> GIF_FILE, files |-> {GIF_FILE},
                          gif |-> <<msp[1]>> \o SubSeq(msp, 2, Len(msp))]
            /\ pc' = "done"
       ELSE /\ result' = [result EXCEPT !.returned = "exception"]
            /\ pc' = "raised"
    /\ UNCHANGED <<mode, script, dims, calls, tube, frame, trace, msp, env>>

GifNext == RenderFrame \/ SaveGif
SpecGif == GifInit /\ [][GifNext]_vars

----------------------------------------------------------------------------
(* Properties of one tube call                                             *)

TubeDone(name) == mode = "tube" /\ pc = "done" /\ script = name
MeshFns == {"dxf.create_tube_solid"}
FrameFns == {"dxf.create_tube_solid", "dxf.create_tube_wireframe",
             "viz.draw_cylinder", "gif.create_tube_3d"}

\* the entities the call added (the modelspace held Prior before it)
Added == SubSeq(msp, 2, Len(msp))
AddedFaces == {k \in 1..Len(Added) : Added[k].kind = "3DFACE"}

RadiusSq(pt) == Num(pt.r * pt.r)

\* a ring of the DXF mesh: count points, all around center, each at distance radius
GoodRing(ring, center, radius, count) ==
    /\ Len(ring) = count
    /\ \A j \in 1..Len(ring) :
        /\ ring[j].c = center
        /\ ring[j].r = radius
        /\ ring[j].i = j - 1
        /\ ExactAngle(ring[j].n) =>
             OffsetLengthSqIs(RingOffset(ring[j], frame.perp1, frame.perp2), RadiusSq(ring[j]))

\* C4: for every tube with start # end, create_tube_solid -> create_closed_tube_mesh
\* builds a start ring and an end ring of exactly segments points each, and every
\* ring point is at distance radius from its ring's center (start for the start
\* ring, end for the end ring).  perp1 and perp2 are orthogonal unit vectors, which
\* puts center + radius * (cos * perp1 + sin * perp2) at distance radius for every
\* angle; for the segment counts 4, 8 and 16 (the default), whose angles are
\* multiples of pi/8, the distance is computed on the coordinates as well.
C4_RingPoints ==
    (TubeDone("dxf.create_tube_solid") /\ tube.start # tube.end) =>
        /\ frame.computed
        /\ IsUnit(frame.perp1)
        /\ IsUnit(frame.perp2)
        /\ Orthogonal(frame.perp1, frame.perp2)
        /\ GoodRing(frame.start_points, tube.start, tube.radius, tube.segments)
        /\ GoodRing(frame.end_points, tube.end, tube.radius, tube.segments)
        /\ \A k \in AddedFaces : \A m \in 1..4 :
             \/ Added[k].verts[m] \in {CapCenter(tube.start), CapCenter(tube.end)}
             \/ \E j \in 1..tube.segments :
                  Added[k].verts[m] \in {frame.start_points[j], frame.end_points[j]}

\* a 16-segment mesh of a tube that is nearly but not exactly vertical
C4_Witness ==
    /\ TubeDone("dxf.create_tube_solid")
    /\ frame.computed
    /\ tube.segments = SEGMENTS
    /\ ~NotVertical(frame.d)
    /\ frame.d.v[1] # Zero
    /\ Len(Added) = 3 * SEGMENTS

Orthonormal(fr) ==
    /\ IsUnit(fr.d)
    /\ IsUnit(fr.perp1)
    /\ IsUnit(fr.perp2)
    /\ Orthogonal(fr.perp1, fr.d)
    /\ Orthogonal(fr.perp2, fr.d)
    /\ Orthogonal(fr.perp1, fr.perp2)

\* C5: for all tubes (every non-zero direction d, nearly vertical ones included)
\* the frame (d, perp1, perp2) chosen by the tube functions is orthonormal, so that
\* all ring points lie in the plane through the ring center perpendicular to
\* (end - start).
C5_Orthonormal ==
    (mode = "tube" /\ pc = "done" /\ script \in FrameFns /\ frame.computed) =>
        /\ Orthonormal(frame)
        /\ \A j \in 1..Len(frame.start_points) :
             ExactAngle(frame.start_points[j].n) =>
                OffsetOrthogonalTo(RingOffset(frame.start_points[j], frame.perp1, frame.perp2),
                                   frame.d)

\* C6: a zero-length tube (start equals end) is dropped rather than emitted: each
\* tube function returns at the length test, before normalising the direction and
\* before emitting any face, line, circle, surface or solid, and the mesh builder
\* is never reached with start = end.
C6_ZeroLengthDropped ==
    (mode = "tube" /\ pc = "done") =>
        /\ tube.start = tube.end =>
             /\ msp = <<Prior>>
             /\ ~frame.computed
             /\ trace = <<Step("length == 0", VZero)>>
        /\ \A k \in 1..Len(trace) :
             trace[k].op = "create_closed_tube_mesh" => tube.start # tube.end

C6_Witness ==
    /\ TubeDone("dxf.create_tube_wireframe")
    /\ tube.start = tube.end
    /\ tube.start # VZero

\* the direction of the tube's axis, end - start
TubeDirection == VSub(tube.end, tube.start)
AlongZ(direction) == direction[1] = Zero /\ direction[2] = Zero /\ direction[3] # Zero
RotateSteps == SelectSeq(trace, LAMBDA st : st.op = "rotate")

\* C11: in the STEP create_tube_solid the cylinder is rotated about (0,0,1) x d
\* only when d is not parallel to the Z axis; a tube along +Z of any length gets no
\* rotation, a tube along -Z of any length takes the 180-degrees-about-X branch,
\* and rotate is never called with the zero vector as rotation axis.
C11_RotationBranches ==
    (TubeDone("step.create_tube_solid") /\ frame.computed) =>
        /\ \A k \in 1..Len(RotateSteps) : RotateSteps[k].arg # VZero
        /\ (AlongZ(TubeDirection) /\ NSign(TubeDirection[3]) > 0) => RotateSteps = <<>>
        /\ (AlongZ(TubeDirection) /\ NSign(TubeDirection[3]) < 0) =>
             RotateSteps = <<Step("rotate", Vec(1, 0, 0))>>
        /\ ~AlongZ(TubeDirection) =>
             RotateSteps = <<Step("rotate", VCross(Vec(0, 0, 1), frame.d.v))>>

\* C12: a tube whose diameter (radius) is zero or negative is rejected at the
\* boundary of create_tube_solid, in the DXF and in the STEP generator, with an
\* error, before any geometry is emitted: the call raises and adds nothing.
C12_NonPositiveRejected ==
    (mode = "tube" /\ pc = "done" /\ tube.radius <= 0
        /\ script \in {"dxf.create_tube_solid", "step.create_tube_solid"}) =>
        /\ Added = <<>>
        /\ trace # <<>>
        /\ trace[Len(trace)].op = "raise"

Normalisations == {"normalize direction", "normalize perp1", "normalize perp2", "cross"}
NormalisedAt(k) == trace[k].op \in Normalisations

\* C13: no tube function normalises, or divides by the length of, a zero-length
\* vector.  The length == 0 test comes first and a tube it stops normalises
\* nothing; every vector normalised after it is non-zero: the direction,
\* (-d.y, d.x, 0) whenever |d.z| < 0.99, and the cross product d x perp1 taken
\* for perp2 in both branches.  (The rotation axis of the STEP function is
\* the subject of C11.)
C13_NoZeroNormalised ==
    (mode = "tube" /\ pc = "done") =>
        /\ trace # <<>> /\ trace[1].op = "length == 0"
        /\ \A k \in 2..Len(trace) : trace[k].op # "length == 0"
        /\ TubeDirection = VZero => \A k \in 1..Len(trace) : ~NormalisedAt(k)
        /\ \A k \in 1..Len(trace) : NormalisedAt(k) => trace[k].arg # VZero
        /\ (script \in FrameFns /\ frame.computed) =>
             /\ NotVertical(frame.d) => <<NNeg(frame.d.v[2]), frame.d.v[1], Zero>> # VZero
             /\ VCross(frame.d.v, frame.perp1.v) # VZero
             /\ frame.d.n # Zero /\ frame.perp1.n # Zero /\ frame.perp2.n # Zero
\* a tube function has taken each branch: a skew tube below the threshold, whose
\* perp1 is normalised, and a tube above it, whose perp1 is the x unit vector
C13_Witness ==
    /\ mode = "tube" /\ pc = "done" /\ script \in FrameFns /\ frame.computed
    /\ \E k \in 1..Len(trace) : trace[k].op = "normalize perp2" \/ trace[k].op = "cross"
    /\ \/ NotVertical(frame.d) /\ frame.d.v[3] # Zero
             /\ \E k \in 1..Len(trace) : trace[k].op = "normalize perp1"
       \/ ~NotVertical(frame.d) /\ ~AlongZ(frame.d.v)

\* the segment count of the call: the segments argument, 16 in create_tube_3d
SegmentCount == IF script = "gif.create_tube_3d" THEN GIF_THETA_POINTS ELSE tube.segments
\* the ring's angles are 2 pi i / count, i = 0..count-1
SampledEvenly(ring, count) ==
    /\ Len(ring) = count
    /\ \A j \in 1..Len(ring) : ring[j].i * count = (j - 1) * ring[j].n
\* no two points of the ring are at the same angle (a whole turn apart)
DistinctAngles(ring) ==
    \A j, m \in 1..Len(ring) :
        j # m => (ring[j].i * ring[m].n - ring[m].i * ring[j].n) % (ring[j].n * ring[m].n) # 0

\* C18: every ring implementation (create_closed_tube_mesh, draw_cylinder,
\* create_tube_3d) samples the angles 2 pi i / segmentCount, i = 0..segmentCount-1,
\* which gives segmentCount distinct points on each ring; draw_cylinder and
\* create_tube_3d so use the same ring angles as the DXF mesh for the same
\* segment count (16).
C18_RingAngles ==
    (mode = "tube" /\ pc = "done" /\ frame.computed /\ tube.radius > 0
        /\ script \in {"dxf.create_tube_solid", "viz.draw_cylinder", "gif.create_tube_3d"}) =>
        /\ SampledEvenly(frame.start_points, SegmentCount)
        /\ SampledEvenly(frame.end_points, SegmentCount)
        /\ DistinctAngles(frame.start_points)
        /\ DistinctAngles(frame.end_points)
        /\ SegmentCount = SEGMENTS =>
             \A j \in 1..SEGMENTS :
                 /\ frame.start_points[j] = RingOf(tube.start, tube.radius, SEGMENTS)[j]
                 /\ frame.end_points[j] = RingOf(tube.end, tube.radius, SEGMENTS)[j]

\* A vertex of the tube's mesh by what it is: the end it belongs to (0 the start,
\* 1 the end) and its ring index, -1 for the cap center.
VertexId(pt) == <<IF pt.c = tube.start THEN 0 ELSE 1, IF pt.r = 0 THEN -1 ELSE pt.i>>
\* the directed edges of a face, the zero-length edge of a repeated vertex left out
FaceEdges(f) ==
    LET v == [m \in 1..4 |-> VertexId(f.verts[m])]
    IN  {e \in {<<v[1], v[2]>>, <<v[2], v[3]>>, <<v[3], v[4]>>, <<v[4], v[1]>>} : e[1] # e[2]}
Reverse(e) == <<e[2], e[1]>>
\* the directed edges of the added faces, each with the index of its face
EdgesByFace == UNION {{<<k, e>> : e \in FaceEdges(Added[k])} : k \in AddedFaces}

SideQuadsAsSpecified ==
    \A j \in 1..tube.segments :
        Added[j].verts = <<frame.start_points[j], NextOf(frame.start_points, j),
                           NextOf(frame.end_points, j), frame.end_points[j]>>

\* C8: side face i is the quad (startRing[i], startRing[i+1], endRing[i+1],
\* endRing[i]), indices modulo segments, and winding is consistent over the whole
\* mesh: two faces that share an edge traverse it in opposite directions.
C8_ConsistentWinding ==
    (TubeDone("dxf.create_tube_solid") /\ frame.computed) =>
        /\ SideQuadsAsSpecified
        /\ LET E == EdgesByFace
           IN  \A p, q \in E : p[1] # q[1] => p[2] # q[2]

\* C9: with all side quads and both caps emitted the mesh is closed and manifold:
\* leaving out the zero-length edge made by a cap face's repeated last vertex,
\* every edge between two distinct vertices belongs to exactly two faces, for
\* every segment count >= 3.
C9_ClosedManifold ==
    (TubeDone("dxf.create_tube_solid") /\ frame.computed) =>
        /\ Len(Added) = 3 * tube.segments
        /\ LET E == EdgesByFace
           IN  \A p \in E :
                 Cardinality({q[1] : q \in {r \in E : r[2] \in {p[2], Reverse(p[2])}}}) = 2

\* the smallest mesh the claim covers: three segments
C9_Witness ==
    /\ TubeDone("dxf.create_tube_solid")
    /\ frame.computed
    /\ tube.segments = 3
    /\ \E k \in AddedFaces : FaceEdges(Added[k]) # {}

\* C24: whenever create_closed_tube_mesh returns, including when add_3dface raised
\* after some faces of the tube were already added and the create_basic_cylinder
\* fallback ran, the modelspace holds exactly one complete mesh for the tube: no
\* face of the tube is present twice and none is left over from the aborted
\* attempt.
C24_OneMesh ==
    (mode = "mesh" /\ pc = "done" /\ frame.computed) =>
        /\ \/ Added = create_closed_tube_mesh(tube.start, tube.end, tube.radius,
                                               tube.layer, tube.segments)
           \/ Added = create_basic_cylinder(tube.start, tube.end, tube.radius,
                                            tube.layer, SEGMENTS)
        /\ \A m, n \in 1..Len(Added) : m # n => Added[m] # Added[n]

----------------------------------------------------------------------------
(* Properties of the frame builders                                        *)

FrameDone(s) == mode = "frame" /\ script = s /\ pc = "done"

\* the squared distance between two points
DistSq(p, q) == VNormSq(VSub(q, p))
Square(x) == NMul(x, x)
\* |x|
NAbs(x) == IF NSign(x) < 0 THEN NNeg(x) ELSE x

\* the number of entities of one kind among the emitted ones
CountKind(kind) == Cardinality({k \in 1..Len(msp) : msp[k].kind = kind})

HasEndpoints(call, start, end) == call.start = start /\ call.end = end

\* C1: with verticalHeight=48, span=24, mainDiameter=2, bottomRailHeight=12 and
\* braceLength=12 (the built-in dimensions) create_metal_frame_dxf and
\* create_frame_visualization produce the four main members (0,0,0)-(0,0,48),
\* (24,0,0)-(24,0,48), (0,0,12)-(24,0,12), (0,0,48)-(24,0,48) and four braces,
\* each of length 12, the top braces ending at horizontal offset 12/sqrt(2) from
\* their vertical tube.
C1_DefaultFrame ==
    (mode = "frame" /\ script \in {"dxf", "viz"} /\ dims = BuiltIn(script) /\ pc = "done") =>
        /\ Len(calls) = 8
        /\ HasEndpoints(calls[1], InchPoint(0, 0, 0), InchPoint(0, 0, 48))
        /\ HasEndpoints(calls[2], InchPoint(24, 0, 0), InchPoint(24, 0, 48))
        /\ HasEndpoints(calls[3], InchPoint(0, 0, 12), InchPoint(24, 0, 12))
        /\ HasEndpoints(calls[4], InchPoint(0, 0, 48), InchPoint(24, 0, 48))
        /\ \A k \in 5..8 : DistSq(calls[k].start, calls[k].end) = Square(Ticks(12))
        /\ LET left == NSub(calls[5].end[1], calls[1].start[1])
               right == NSub(calls[2].start[1], calls[6].end[1])
           IN  /\ NSign(left) > 0
               /\ left = right
               /\ NScale(2, Square(left)) = Square(Ticks(12))
        /\ script = "dxf" => CountKind("3DFACE") = 8 * 3 * SEGMENTS
        /\ script = "viz" => CountKind("SURFACE") = 8

C1_Witness ==
    /\ FrameDone("viz")
    /\ dims = VIZ_DIMS
    /\ Len(calls) = 8
    /\ calls[6].end[1] # calls[2].start[1]

\* C2: for every brace length L and each of the four corner braces, the distance
\* between the brace's computed start and end point is L: both coordinate
\* differences have magnitude brace_offset = L / sqrt(2), so the squared distance
\* is 2 * brace_offset^2 = L^2, whatever the span, height and rail height.
C2_BraceLength ==
    mode = "frame" =>
        \A k \in 5..8 : k <= Len(calls) =>
            LET L == Ticks(dims.BRACE_LENGTH)
                dx == NAbs(NSub(calls[k].end[1], calls[k].start[1]))
                dz == NAbs(NSub(calls[k].end[3], calls[k].start[3]))
            IN  /\ calls[k].end[2] = calls[k].start[2]
                /\ dx = dz
                /\ NScale(2, Square(dx)) = Square(L)
                /\ DistSq(calls[k].start, calls[k].end) = Square(L)

C2_Witness ==
    /\ FrameDone("gif")
    /\ dims # GIF_DIMS
    /\ dims.BRACE_LENGTH = MaxBrace
    /\ dims.HORIZONTAL_LENGTH = 0
    /\ Len(calls) = 8
    /\ calls[8].start # calls[8].end

\* x -> span - x, y and z kept
Mirror(p) == <<NSub(Ticks(dims.HORIZONTAL_LENGTH), p[1]), p[2], p[3]>>
MirrorImages(left, right) ==
    /\ Mirror(left.start) = right.start
    /\ Mirror(left.end) = right.end

\* C3: with the default parameters the left and right vertical tubes and the four
\* corner braces are mirror images across the plane x = span/2: x -> span - x
\* sends each endpoint of a left member to the corresponding endpoint of the right
\* member, y and z unchanged (DXF and STEP builders).
C3_MirrorSymmetry ==
    (mode = "frame" /\ script \in {"dxf", "step"} /\ dims = BuiltIn(script) /\ pc = "done") =>
        /\ MirrorImages(calls[1], calls[2])
        /\ MirrorImages(calls[5], calls[6])
        /\ MirrorImages(calls[7], calls[8])

C3_Witness ==
    /\ FrameDone("step")
    /\ dims = InMm(STEP_INCHES)
    /\ calls[5].member = "left_top_brace"
    /\ calls[6].member = "right_top_brace"
    /\ calls[5].end # calls[6].end

\* a length of the DXF drawing (ticks of half an inch) as the STEP model's
\* length (ticks of 0.1 mm): 25.4 times the value
Scaled(x) == NScale(INCH_TO_MM, x)
VScaled(p) == <<Scaled(p[1]), Scaled(p[2]), Scaled(p[3])>>
\* the inch figures a STEP builder's dimensions were converted from
InchesOf(dm) == {o \in {STEP_INCHES} \cup OtherDims : InMm(o) = dm}

\* C15: every tube end point coordinate, the brace offset and the tube diameter
\* that create_metal_frame_step hands to its tube function equal 25.4 times the
\* value create_metal_frame_dxf uses for the same inch figures (the diameter 25.4
\* times twice the DXF radius), for all eight members.
C15_StepIsDxfInMm ==
    (mode = "frame" /\ script = "step") =>
        \A o \in InchesOf(dims) :
            LET dxf == TubeCalls("dxf", o)
            IN  /\ brace_offset(dims.BRACE_LENGTH) = Scaled(brace_offset(o.BRACE_LENGTH))
                /\ \A k \in 1..Len(calls) :
                     /\ calls[k].member = dxf[k].member
                     /\ calls[k].start = VScaled(dxf[k].start)
                     /\ calls[k].end = VScaled(dxf[k].end)
                     /\ calls[k].size = INCH_TO_MM * (2 * dxf[k].size)
\* the STEP builder has made all eight tube calls for its built-in dimensions
C15_Witness ==
    /\ mode = "frame" /\ script = "step" /\ pc \in {"finish", "done"}
    /\ dims = InMm(STEP_INCHES)
    /\ InchesOf(dims) = {STEP_INCHES}
    /\ STEP_INCHES = DXF_DIMS
    /\ Len(calls) = 8
    /\ calls[8].end # calls[8].start

\* the layer of a member's role
RoleLayer(member) ==
    CASE member \in {"left_vertical", "right_vertical"} -> "VERTICAL_TUBES"
      [] member \in {"bottom_horizontal", "top_horizontal"} -> "HORIZONTAL_TUBES"
      [] OTHER -> "CORNER_BRACES"
IsMember(name) == \E k \in 1..Len(MemberNames) : MemberNames[k] = name
IsCap(f) == f.verts[1] = CapCenter(f.verts[1].c)

\* C16: in the DXF drawing every face of a tube, side quad or cap, carries the
\* layer of the tube's role: VERTICAL_TUBES for the verticals, HORIZONTAL_TUBES
\* for the rails, CORNER_BRACES for the braces; no face is put on DIMENSIONS,
\* CENTERLINES or another role's layer, by the tube's call or later.
C16_FaceLayers ==
    [][(mode = "frame" /\ script = "dxf") =>
        /\ Len(msp') >= Len(msp)
        /\ \A k \in 1..Len(msp) : msp'[k] = msp[k]
        /\ \A k \in (Len(msp) + 1)..Len(msp') :
             IF IsMember(pc)
             THEN msp'[k].kind = "3DFACE" /\ msp'[k].layer = RoleLayer(pc)
             ELSE msp'[k].kind # "3DFACE"]_vars
\* the finished drawing of the built-in frame holds a cap face of a brace, a side
\* quad of a rail and a face of a vertical, next to the centerlines
C16_Witness ==
    /\ FrameDone("dxf")
    /\ dims = DXF_DIMS
    /\ \E k \in 1..Len(msp) :
         msp[k].kind = "3DFACE" /\ msp[k].layer = "CORNER_BRACES" /\ IsCap(msp[k])
    /\ \E k \in 1..Len(msp) :
         msp[k].kind = "3DFACE" /\ msp[k].layer = "HORIZONTAL_TUBES" /\ ~IsCap(msp[k])
    /\ \E k \in 1..Len(msp) : msp[k].kind = "3DFACE" /\ msp[k].layer = "VERTICAL_TUBES"
    /\ \E k \in 1..Len(msp) : msp[k].kind = "LINE" /\ msp[k].layer = "CENTERLINES"

Between(lo, x, hi) == NLeq(lo, x) /\ NLeq(x, hi)
\* the call's tube runs from the vertical at x, at height z, to the rail at height rail
BraceFrom(call, x, z, rail) ==
    /\ call.start[1] = x /\ call.start[2] = Zero /\ call.start[3] = z
    /\ call.end[2] = Zero /\ call.end[3] = rail

\* C17: with each script's built-in dimensions every brace connects a point on
\* its vertical (start x the vertical's x, start z within [0, verticalHeight]) to
\* a point on the nearest rail (end z the rail's height, end x within [0, span]);
\* the top braces start brace_offset below the top rail, the bottom braces
\* brace_offset above the bottom rail.
C17_BraceAttachment ==
    (mode = "frame" /\ dims = BuiltIn(script)) =>
        LET height == Ticks(dims.VERTICAL_HEIGHT)
            span == Ticks(dims.HORIZONTAL_LENGTH)
            bottom == Ticks(dims.BOTTOM_HORIZONTAL_HEIGHT)
            offset == NScale(dims.BRACE_LENGTH, Root2)
        IN  \A k \in 5..Len(calls) :
              /\ Between(Zero, calls[k].start[3], height)
              /\ Between(Zero, calls[k].end[1], span)
              /\ CASE calls[k].member = "left_top_brace" ->
                         BraceFrom(calls[k], Zero, NSub(height, offset), height)
                   [] calls[k].member = "right_top_brace" ->
                         BraceFrom(calls[k], span, NSub(height, offset), height)
                   [] calls[k].member = "left_bottom_brace" ->
                         BraceFrom(calls[k], Zero, NAdd(bottom, offset), bottom)
                   [] calls[k].member = "right_bottom_brace" ->
                         BraceFrom(calls[k], span, NAdd(bottom, offset), bottom)
                   [] OTHER -> FALSE
\* the GIF builder has made its four brace calls for its built-in dimensions
C17_Witness ==
    /\ FrameDone("gif")
    /\ dims = GIF_DIMS
    /\ Len(calls) = 8
    /\ calls[7].member = "left_bottom_brace"
    /\ NLess(Ticks(dims.BOTTOM_HORIZONTAL_HEIGHT), calls[7].start[3])
    /\ NLess(calls[7].start[3], Ticks(dims.VERTICAL_HEIGHT))

\* the tube calls for which create_tube_solid returns a solid: those of non-zero length
ReturnedSolid == SelectSeq(calls, LAMBDA a : a.start # a.end)
\* the solid is the cylinder of the call: its length and radius, moved to its start
SolidOf(solid, a) ==
    /\ solid.kind = "SOLID"
    /\ solid.translate = a.start
    /\ solid.lengthSq = DistSq(a.start, a.end)
    /\ solid.radius = a.size \div 2

\* C21: create_metal_frame_step puts into the compound exactly one solid for each
\* member for which create_tube_solid returned a solid, never a None, in the fixed
\* order left vertical, right vertical, bottom rail, top rail, left-top, right-top,
\* left-bottom and right-bottom brace; with the built-in dimensions all eight
\* members are present in the compound.
C21_CompoundMembers ==
    (mode = "frame" /\ script = "step" /\ pc \in {"done", "raised"}) =>
        /\ \A k \in 1..Len(calls) : calls[k].member = MemberNames[k]
        /\ (pc = "done" /\ ReturnedSolid # <<>>) =>
             /\ Len(msp) = 1 /\ msp[1].kind = "Part::Feature"
             /\ Len(msp[1].shape) = Len(ReturnedSolid)
             /\ \A j \in 1..Len(ReturnedSolid) : SolidOf(msp[1].shape[j], ReturnedSolid[j])
        /\ dims = BuiltIn("step") =>
             /\ pc = "done"
             /\ Len(msp) = 1 /\ msp[1].kind = "Part::Feature"
             /\ Len(msp[1].shape) = 8

----------------------------------------------------------------------------
(* Properties of the entry points                                          *)

\* the file the script is run for
Product(s) ==
    CASE s = "convert" -> STEP_FILE
      [] s = "stepgen" -> STEP_FILE
      [] s = "dxfgen" -> DXF_FILE
      [] s = "viz" -> PNG_FILE

\* the export or render succeeded: the product was written
Succeeded == Product(script) \in result.files

\* C10: every script entry point (convert_dxf_to_step, metal_frame_step_generator,
\* metal_frame_generator, visualize_frame) exits with status 0 when its export or
\* render succeeded and with status 1 when it failed.
C10_ExitStatus ==
    (mode = "script" /\ pc = "exited") =>
        result.status = (IF Succeeded THEN "0" ELSE "1")

\* the conversion paths of convert_dxf_to_step.main in their order, and what
\* each returns in this run
Methods ==
    <<"convert_with_freecad", "create_step_using_native_generator", "convert_with_external_tools">>
Rank(m) == CHOOSE k \in 1..Len(Methods) : Methods[k] = m
Ok(m) ==
    CASE m = "convert_with_freecad" -> convert_with_freecad(env).ok
      [] m = "create_step_using_native_generator" -> create_step_using_native_generator(env).ok
      [] m = "convert_with_external_tools" -> env.which_ok /\ convert_with_external_tools(env)
Attempted == SelectSeq(calls, LAMBDA m : \E k \in 1..Len(Methods) : Methods[k] = m)
Guidance == \E k \in 1..Len(calls) : calls[k] = "manual instructions"

\* C14: convert_dxf_to_step.main tries the conversion paths in the fixed order
\* FreeCAD (only when FreeCAD is importable), native STEP generator, external tools;
\* a path is attempted only after every earlier attempted path has failed; main
\* returns True as soon as one path succeeds, attempting no later one; and it prints
\* the manual-conversion guidance and returns False only when every attempted path
\* failed.
C14_FallbackOrder ==
    (mode = "script" /\ script = "convert") =>
        /\ \A i, j \in 1..Len(Attempted) : i < j => Rank(Attempted[i]) < Rank(Attempted[j])
        /\ (Attempted # <<>> /\ Attempted[1] = "convert_with_freecad") => env.freecad
        /\ (Attempted # <<>> /\ Attempted[1] # "convert_with_freecad") =>
             ~env.freecad /\ Attempted[1] = "create_step_using_native_generator"
        /\ \A k \in 2..Len(Attempted) : Rank(Attempted[k]) = Rank(Attempted[k - 1]) + 1
        /\ \A k \in 1..Len(Attempted) : k < Len(Attempted) => ~Ok(Attempted[k])
        /\ (Attempted # <<>> /\ Ok(Attempted[Len(Attempted)])) =>
             pc \in {"return", "exited"} /\ result.returned = "True"
        /\ result.returned = "True" => Attempted # <<>> /\ Ok(Attempted[Len(Attempted)])
        /\ Guidance =>
             /\ result.returned = "False"
             /\ Len(Attempted) >= 2 /\ Attempted[Len(Attempted)] = "convert_with_external_tools"
             /\ \A k \in 1..Len(Attempted) : ~Ok(Attempted[k])
        /\ (result.returned = "False" /\ env.dxf_exists) => Guidance
\* FreeCAD was tried and failed, then the native generator succeeded and main
\* returned True without probing the external tools
C14_Witness ==
    /\ mode = "script" /\ script = "convert" /\ pc = "return"
    /\ result.returned = "True"
    /\ Attempted = <<"convert_with_freecad", "create_step_using_native_generator">>

\* C19: when stainless_steel_frame_3d.dxf does not exist, convert_dxf_to_step.main
\* returns False without attempting any conversion method: no FreeCAD import, no
\* subprocess for the native generator, no external-tool probe.
C19_MissingDxf ==
    (mode = "script" /\ script = "convert" /\ ~env.dxf_exists /\ pc # "start") =>
        /\ pc \in {"return", "exited"}
        /\ result.returned = "False"
        /\ calls = <<>>
        /\ result.files = {} /\ result.docs = {}
\* main has returned for a missing DXF file in a run where FreeCAD is importable
\* and the native generator would have succeeded
C19_Witness ==
    /\ mode = "script" /\ script = "convert" /\ pc = "return"
    /\ ~env.dxf_exists
    /\ env.freecad /\ create_step_using_native_generator(env).ok
    /\ result.returned = "False"

Called(name) == \E k \in 1..Len(calls) : calls[k] = name
\* export_to_step returns True: exportStep and getsize both return
ExportReturnedTrue == env.export_ok /\ env.getsize_ok

\* C20: metal_frame_step_generator.main returns True exactly when
\* create_metal_frame_step returned a document and frame object and export_to_step
\* returned True; a failure of the additional IGES export is swallowed and does
\* not change the result; an exception raised while creating or exporting makes
\* main return False, it never leaves main.
C20_StepgenResult ==
    (mode = "script" /\ script = "stepgen") =>
        /\ pc # "raised"
        /\ pc = "return" =>
             /\ result.returned \in {"True", "False"}
             /\ result.returned = "True" <=> (env.build_ok /\ ExportReturnedTrue)
             /\ result.returned = "True" => STEP_FILE \in result.files
             /\ Called("create_metal_frame_step")
             /\ Called("export_to_step") <=> env.build_ok
             /\ Called("exportIges") <=> (env.build_ok /\ ExportReturnedTrue)
             /\ IGES_FILE \in result.files <=> (env.build_ok /\ ExportReturnedTrue /\ env.iges_ok)
        /\ pc = "exited" =>
             (result.returned = "unset" <=> ~env.freecad)
\* main has returned True although the IGES export failed
C20_Witness ==
    /\ mode = "script" /\ script = "stepgen" /\ pc = "return"
    /\ env.build_ok /\ ExportReturnedTrue /\ ~env.iges_ok
    /\ result.returned = "True"
    /\ result.files = {STEP_FILE}

\* C22: export_to_step returns False without attempting any export when doc or
\* frame_obj is missing, returns False when the export raises, and returns True
\* only after exportStep completed and the written file's size could be read; no
\* exception leaves it.
C22_ExportToStep ==
    (mode = "export" /\ pc = "done") =>
        /\ result.returned \in {"True", "False"}
        /\ (tube.doc = "None" \/ tube.frame_obj = "None") =>
             /\ result.returned = "False"
             /\ calls = <<>>
             /\ result.files = tube.existing
        /\ ~env.export_ok => result.returned = "False" /\ ~Called("getsize")
        /\ result.returned = "True" =>
             /\ calls = <<"exportStep", "getsize">>
             /\ env.export_ok /\ env.getsize_ok
             /\ tube.filename \in result.files
\* the export has returned True for a document and object of its own
C22_Witness ==
    /\ mode = "export" /\ pc = "done"
    /\ tube.doc = "Conversion" /\ tube.frame_obj = "MetalFrame"
    /\ tube.existing = {}
    /\ result.returned = "True"
    /\ result.files = {tube.filename}

\* C23: create_rotating_gif renders exactly 24 frames, frame i at azimuth 15*i
\* degrees for i = 0..23 in increasing order (0 first, 345 last, no angle
\* repeated, 360 not included), and the saved GIF consists of these 24 frames in
\* that order, the first frame followed by the remaining 23.
C23_RotationFrames ==
    mode = "gif" =>
        /\ Len(msp) <= 24 /\ Len(calls) <= 24
        /\ \A k \in 1..Len(calls) : calls[k].azim = 15 * (k - 1)
        /\ \A k \in 1..Len(msp) : msp[k].azim = 15 * (k - 1) /\ msp[k].azim < 360
        /\ \A j, k \in 1..Len(msp) : j < k => msp[j].azim < msp[k].azim
        /\ pc \in {"save", "done"} => (Len(msp) = 24 /\ Len(calls) = 24)
        /\ pc = "loop" => (Len(msp) < 24 /\ Len(calls) = Len(msp))
        /\ pc = "done" =>
             /\ result.gif = msp
             /\ result.gif[1].azim = 0 /\ result.gif[24].azim = 345
             /\ GIF_FILE \in result.files
        /\ pc # "done" => result.gif = <<>> /\ result.files = {}
\* the GIF has been saved with its 24 frames
C23_Witness ==
    /\ mode = "gif" /\ pc = "done"
    /\ Len(result.gif) = 24
    /\ result.gif[2].azim = 15
    /\ result.gif[24].azim = 345

\* C25: if FreeCAD is not importable, in the converter and in the Python
\* subprocess it starts, convert_dxf_to_step.main returns False on every run:
\* Method 1 is skipped, the native generator subprocess exits with status 1 at its
\* import guard, the external-tools path cannot succeed, and the process exits
\* with status 1.
C25_NoFreecad ==
    (mode = "script" /\ script = "convert" /\ ~env.freecad) =>
        /\ ~Called("convert_with_freecad")
        /\ ~create_step_using_native_generator(env).ok
        /\ result.returned # "True"
        /\ pc # "raised"
        /\ pc = "return" => result.returned = "False"
        /\ pc = "exited" => (result.returned = "False" /\ result.status = "1")

\* the probes "which <tool>" made so far, in order
Probed == SelectSeq(calls, LAMBDA m : \E k \in 1..Len(tools_to_try) : tools_to_try[k] = m)

C27_ConversionClosed ==
    (mode = "script" /\ script = "convert" /\ Called("convert_with_freecad")) =>
        /\ convert_with_freecad(env).docs = {}
        /\ result.docs = {}

\* C28: every FreeCAD document created by create_metal_frame_step is closed by
\* the time metal_frame_step_generator.main returns, on every path: successful
\* export, failed STEP export, no tubes created, and an exception raised after
\* the document was created.
C28_MetalFrameClosed ==
    (mode = "script" /\ script = "stepgen" /\ pc \in {"return", "exited"}) =>
        result.docs = {}

====
